---- MODULE Spec2Model ----
(***************************************************************************)
(* The STRIDE threat-model generator of nestjs-coffee-project:             *)
(*   - parseStrideThreats, the parser of the AI's free-text response       *)
(*     (regular expressions modelled character by character on strings);   *)
(*   - the generation run: per-asset AI calls, the global pass, the JSON    *)
(*     artifact and the statistics of the markdown report.                  *)
(* Strings are TLA+ strings; positions are 1-based.                         *)
(***************************************************************************)
EXTENDS Integers, Sequences, FiniteSets, TLC

(***************************************************************************)
(* String primitives (JavaScript String / RegExp building blocks).         *)
(***************************************************************************)

\* s[i-1] in JavaScript; "" outside the string.
Ch(s, i) == IF i >= 1 /\ i <= Len(s) THEN SubSeq(s, i, i) ELSE ""

\* s.substring(i-1, j); "" when the range is empty.
Sub(s, i, j) == IF i <= j /\ i >= 1 /\ j <= Len(s) THEN SubSeq(s, i, j) ELSE ""

\* The regular-expression class \s, over the characters the inputs use.
IsWs(c) == c \in {" ", "\t", "\n", "\r"}

\* The regular-expression class \d.
IsDigit(c) == c \in {"0", "1", "2", "3", "4", "5", "6", "7", "8", "9"}

\* The class [-\*\d] of the list-item patterns.
IsBullet(c) == c = "-" \/ c = "*" \/ IsDigit(c)

\* The class [^\n*#] of the heading text.
IsNameChar(c) == c # "" /\ c \notin {"\n", "*", "#"}

\* The least j in i..n with P(j), and n + 1 when there is none.
First(P(_), i, n) ==
  IF i > n THEN n + 1
  ELSE CHOOSE j \in i..(n + 1) : (j = n + 1 \/ P(j)) /\ \A k \in i..(j - 1) : ~P(k)

\* The greatest j in lo..i with P(j), and lo - 1 when there is none.
LastDown(P(_), i, lo) ==
  IF i < lo THEN lo - 1
  ELSE CHOOSE j \in (lo - 1)..i : (j = lo - 1 \/ P(j)) /\ \A k \in (j + 1)..i : ~P(k)

\* The literal lit stands at position i of s.
StartsAt(s, i, lit) ==
  i >= 1 /\ i + Len(lit) - 1 <= Len(s) /\ SubSeq(s, i, i + Len(lit) - 1) = lit

\* The position after a greedy \s* that starts at i.
SkipWs(s, i) == First(LAMBDA j : ~IsWs(Ch(s, j)), i, Len(s))

\* The position after a greedy [-\*\d]* that starts at i.
SkipBullets(s, i) == First(LAMBDA j : ~IsBullet(Ch(s, j)), i, Len(s))

\* The position after a greedy #* that starts at i.
SkipHashes(s, i) == First(LAMBDA j : Ch(s, j) # "#", i, Len(s))

UpperToLower ==
  "A" :> "a" @@ "B" :> "b" @@ "C" :> "c" @@ "D" :> "d" @@ "E" :> "e" @@
  "F" :> "f" @@ "G" :> "g" @@ "H" :> "h" @@ "I" :> "i" @@ "J" :> "j" @@
  "K" :> "k" @@ "L" :> "l" @@ "M" :> "m" @@ "N" :> "n" @@ "O" :> "o" @@
  "P" :> "p" @@ "Q" :> "q" @@ "R" :> "r" @@ "S" :> "s" @@ "T" :> "t" @@
  "U" :> "u" @@ "V" :> "v" @@ "W" :> "w" @@ "X" :> "x" @@ "Y" :> "y" @@
  "Z" :> "z"

\* String.prototype.toLowerCase.
RECURSIVE toLowerCase(_)
toLowerCase(s) ==
  IF Len(s) = 0 THEN ""
  ELSE IF Len(s) = 1 THEN (IF s \in DOMAIN UpperToLower THEN UpperToLower[s] ELSE s)
  ELSE toLowerCase(SubSeq(s, 1, Len(s) \div 2))
       \o toLowerCase(SubSeq(s, Len(s) \div 2 + 1, Len(s)))

\* String.prototype.trim.
trim(s) ==
  LET a == SkipWs(s, 1)
      b == LastDown(LAMBDA j : ~IsWs(Ch(s, j)), Len(s), 1)
  IN  Sub(s, a, b)

\* String.prototype.includes.
includes(s, sub) == \E i \in 1..(Len(s) - Len(sub) + 1) : StartsAt(s, i, sub)

\* String.prototype.indexOf, 1-based; 0 when sub does not occur at or after from.
indexOf(s, sub, from) ==
  LET i == First(LAMBDA j : StartsAt(s, j, sub), from, Len(s)) IN
  IF i > Len(s) THEN 0 ELSE i

\* aiResponse.replace(/\r\n/g, '\n').
RECURSIVE normalizeLineEndings(_)
normalizeLineEndings(s) ==
  LET i == indexOf(s, "\r\n", 1) IN
  IF i = 0 THEN s
  ELSE Sub(s, 1, i - 1) \o "\n" \o normalizeLineEndings(Sub(s, i + 2, Len(s)))

(***************************************************************************)
(* parseStrideThreats: the category blocks (categoryRegex).                *)
(***************************************************************************)
\* categoryRegex =
\*   /(?:^|\n)(?:#+|\*\*)\s*([^\n*#]+?)(?:\*\*)?\s*(?:\n|:)([\s\S]*?)(?=\n(?:#+|\*\*)\s|$)/g

threatCategories ==
  << "Spoofing", "Tampering", "Repudiation",
     "Information Disclosure", "Denial of Service", "Elevation of Privilege" >>

\* (?:#+|\*\*) at position q: the position after the marker, 0 when there is none.
HeadingMarkerEnd(s, q) ==
  IF Ch(s, q) = "#" THEN SkipHashes(s, q)
  ELSE IF StartsAt(s, q, "**") THEN q + 2
  ELSE 0

\* (?:\n|:) once the greedy \s* from t has run up to u: ':' at u, or, giving
\* whitespace back, the last newline nl of the run. 0 when neither is there.
TerminatorEnd(s, t, u, nl) ==
  IF Ch(s, u) = ":" THEN u + 1
  ELSE IF nl >= t THEN nl + 1
  ELSE 0

\* \s*(?:\n|:) at position t: the position after it, 0 when it does not match.
HeadingTerminatorPlain(s, t) ==
  LET u == SkipWs(s, t) IN
  TerminatorEnd(s, t, u, LastDown(LAMBDA j : Ch(s, j) = "\n", u - 1, t))

\* The first alternative that matched: a when it did (a # 0), b otherwise.
OrElse(a, b) == IF a # 0 THEN a ELSE b

\* (?:\*\*)?\s*(?:\n|:) at position t: the closing ** is taken when the rest then
\* matches, and skipped otherwise.
HeadingTerminator(s, t) ==
  IF StartsAt(s, t, "**")
  THEN OrElse(HeadingTerminatorPlain(s, t + 2), HeadingTerminatorPlain(s, t))
  ELSE HeadingTerminatorPlain(s, t)

\* e ends a heading text when it is inside the text and on a heading character.
NameEndOrNone(s, e) == IF e <= Len(s) /\ IsNameChar(Ch(s, e)) THEN e ELSE 0

\* ([^\n*#]+?) from position g: the last position of the shortest heading text after
\* which the terminator matches; 0 when no heading text starting at g will do.
HeadingNameEnd(s, g) ==
  NameEndOrNone(s, First(LAMBDA j : ~IsNameChar(Ch(s, j)) \/ HeadingTerminator(s, j + 1) # 0,
                         g, Len(s)))

\* \s*([^\n*#]+?) from position r, right after the marker: the greedy \s* gives
\* characters back until a heading text can start. The start of the text, or 0.
NameStartOrNone(r, g) == IF g >= r THEN g ELSE 0

HeadingNameStart(s, r) ==
  NameStartOrNone(r, LastDown(LAMBDA j : HeadingNameEnd(s, j) # 0, SkipWs(s, r), r))

\* (?=\n(?:#+|\*\*)\s|$) at position j: a newline, a heading marker and, right
\* after the marker, a whitespace character.
BlockEndAt(s, j) ==
  /\ Ch(s, j) = "\n"
  /\ \/ Ch(s, j + 1) = "#" /\ IsWs(Ch(s, SkipHashes(s, j + 1)))
     \/ StartsAt(s, j + 1, "**") /\ IsWs(Ch(s, j + 3))

\* exec returned null.
NoMatch == [found |-> FALSE, g1 |-> "", g2 |-> "", lastIndex |-> 0]

\* The match whose heading text is s[g..e], whose block starts at body and stops
\* before position stop; lastIndex is where the next exec starts.
MatchRecord(s, g, e, body, stop) ==
  [found |-> TRUE, g1 |-> Sub(s, g, e), g2 |-> Sub(s, body, stop - 1), lastIndex |-> stop]

\* ([\s\S]*?)(?=...): the block runs from body to the first block end, or to the
\* end of the text.
MatchOfHeading(s, g, e, body) ==
  MatchRecord(s, g, e, body, First(LAMBDA j : BlockEndAt(s, j), body, Len(s)))

MatchOfName(s, g, e) == MatchOfHeading(s, g, e, HeadingTerminator(s, e + 1))

MatchFromName(s, g) == IF g = 0 THEN NoMatch ELSE MatchOfName(s, g, HeadingNameEnd(s, g))

MatchAfterMarker(s, r) == IF r = 0 THEN NoMatch ELSE MatchFromName(s, HeadingNameStart(s, r))

\* The match of categoryRegex whose heading marker is at position q.
CategoryMatchAt(s, q) == MatchAfterMarker(s, HeadingMarkerEnd(s, q))

\* The heading part of categoryRegex matches with its marker at position q.
HeadingAt(s, q) ==
  HeadingMarkerEnd(s, q) # 0 /\ HeadingNameStart(s, HeadingMarkerEnd(s, q)) # 0

\* (?:^|\n) at position p, '^' holding at the start of the text only: the position
\* of the heading marker of the match that starts at p, 0 when none starts there.
MatchStart(s, p) ==
  IF p = 1 /\ HeadingAt(s, 1) THEN 1
  ELSE IF Ch(s, p) = "\n" /\ HeadingAt(s, p + 1) THEN p + 1
  ELSE 0

\* The match that starts at position p; null past the end of the text.
ExecAt(s, p) == IF p > Len(s) THEN NoMatch ELSE CategoryMatchAt(s, MatchStart(s, p))

\* categoryRegex.exec(normalizedResponse) with the regex's lastIndex at position
\* lastIndex: the leftmost match that starts at or after it.
categoryRegexExec(s, lastIndex) ==
  ExecAt(s, First(LAMBDA j : MatchStart(s, j) # 0, lastIndex, Len(s)))

\* The loop condition without its special case for "information".
CategoryMatchesNameOnly(lowerName, cat) == includes(lowerName, toLowerCase(cat))

\* The condition of the loop over threatCategories, on the lower-cased heading: it
\* includes the lower-cased category name, or "information" for Information
\* Disclosure.
CategoryMatches(lowerName, cat) ==
  \/ includes(lowerName, toLowerCase(cat))
  \/ cat = "Information Disclosure" /\ includes(lowerName, "information")

\* The first category of threatCategories that matches; "" (undefined) when none.
FirstCategory(lowerName) ==
  LET i == First(LAMBDA k : CategoryMatches(lowerName, threatCategories[k]),
                 1, Len(threatCategories))
  IN  IF i > Len(threatCategories) THEN "" ELSE threatCategories[i]

strideCategoryOf(categoryName) == FirstCategory(toLowerCase(categoryName))

(***************************************************************************)
(* parseStrideThreats: the threat sub-blocks of one category block.        *)
(***************************************************************************)

\* \n\s*[-\*\d]+\.?\s* at position q of the lower-cased text lc: the position after
\* it, 0 when it does not match there. Each quantifier takes all it can: what
\* follows every one of them starts with a character it cannot take.
ListItemPrefixEnd(lc, q) ==
  LET a == SkipWs(lc, q + 1)
      b == SkipBullets(lc, a)
      c == IF Ch(lc, b) = "." THEN b + 1 ELSE b
  IN  IF Ch(lc, q) = "\n" /\ b > a THEN SkipWs(lc, c) ELSE 0

\* (?=\n\s*[-\*\d]+\.?\s*(?:Threat|Description):) with the flags gi.
ThreatItemAt(lc, q) ==
  LET d == ListItemPrefixEnd(lc, q) IN
  d # 0 /\ (StartsAt(lc, d, "threat:") \/ StartsAt(lc, d, "description:"))

\* (?=\n\s*[-\*\d]+\.?\s*) with the flag g.
ListItemAt(lc, q) == ListItemPrefixEnd(lc, q) # 0

\* String.prototype.split on a zero-width pattern that holds at the positions
\* `points`: the text is cut before every such position but the first character.
RECURSIVE SplitBefore(_, _, _)
SplitBefore(s, points, p) ==
  LET q == First(LAMBDA j : j \in points, p + 1, Len(s)) IN
  IF q > Len(s) THEN << Sub(s, p, Len(s)) >>
  ELSE << Sub(s, p, q - 1) >> \o SplitBefore(s, points, q)

\* categoryContent.split(/(?=\n\s*[-\*\d]+\.?\s*(?:Threat|Description):)/gi)
threatBlocksOf(categoryContent) ==
  LET lc == toLowerCase(categoryContent) IN
  SplitBefore(categoryContent, {q \in 1..Len(lc) : ThreatItemAt(lc, q)}, 1)

\* categoryContent.split(/(?=\n\s*[-\*\d]+\.?\s*)/g)
altBlocksOf(categoryContent) ==
  SplitBefore(categoryContent,
              {q \in 1..Len(categoryContent) : ListItemAt(categoryContent, q)}, 1)

AltSplitMinLength == 50

\* blocksToProcess: the alternative split is used when the first one found no
\* second block and the content is longer than 50 characters.
blocksToProcessOf(categoryContent) ==
  LET threatBlocks == threatBlocksOf(categoryContent)
      altBlocks    == altBlocksOf(categoryContent)
  IN  IF Len(threatBlocks) <= 1 /\ Len(categoryContent) > AltSplitMinLength
         /\ Len(altBlocks) > 1
      THEN altBlocks
      ELSE threatBlocks

(***************************************************************************)
(* parseStrideThreats: the fields of one threat sub-block. The patterns    *)
(* with the flag i are matched on lb, the block in lower case.             *)
(***************************************************************************)

threatLabels == << "Threat:", "Description:", "Issue:" >>

\* A match of block.match(...) with its first group; null.
Matched(g1) == [found |-> TRUE, g1 |-> g1]

Null == [found |-> FALSE, g1 |-> ""]

\* Reading index 1 of a match that is null throws a TypeError in JavaScript.
TypeError == "TypeError: Cannot read properties of null (reading '1')"

\* match[1]
Group1(m) == IF m.found THEN m.g1 ELSE TypeError

\* (?=\n\s*Risk:|\n\s*Mitigation:|\n##|$) at position j of the lower-cased block.
DescriptionEndAt(lb, j) ==
  /\ Ch(lb, j) = "\n"
  /\ \/ StartsAt(lb, SkipWs(lb, j + 1), "risk:")
     \/ StartsAt(lb, SkipWs(lb, j + 1), "mitigation:")
     \/ StartsAt(lb, j + 1, "##")

\* block.match(new RegExp(`${label}\s*([\s\S]*?)(?=\n\s*Risk:|\n\s*Mitigation:|\n##|$)`, 'i')):
\* the leftmost occurrence of the label in any letter case, the whitespace after it,
\* then the shortest text up to a Risk: or Mitigation: line, a ## heading or the end.
labelMatch(block, lb, label) ==
  LET i == indexOf(lb, toLowerCase(label), 1)
      a == SkipWs(lb, i + Len(label))
  IN  IF i = 0 THEN Null
      ELSE Matched(Sub(block, a, First(LAMBDA j : DescriptionEndAt(lb, j), a, Len(lb)) - 1))

\* threatDescriptionMatch && threatDescriptionMatch[1].trim(): the trimmed text of
\* the match, "" (falsy) when there is no match or the text is blank.
labelText(threatDescriptionMatch) ==
  IF threatDescriptionMatch.found THEN trim(Group1(threatDescriptionMatch)) ELSE ""

\* The loop over threatLabels: the first label whose match has a non-blank text
\* gives the description; "" when none does.
labelledDescription(block, lb) ==
  LET k == First(LAMBDA n : labelText(labelMatch(block, lb, threatLabels[n])) # "",
                 1, Len(threatLabels))
  IN  IF k > Len(threatLabels) THEN ""
      ELSE labelText(labelMatch(block, lb, threatLabels[k]))

\* firstLine.match(/^[-\*\d]+\.?\s*$/): a bare bullet marker.
IsBareBullet(firstLine) ==
  LET b == SkipBullets(firstLine, 1)
      c == IF Ch(firstLine, b) = "." THEN b + 1 ELSE b
  IN  b > 1 /\ SkipWs(firstLine, c) > Len(firstLine)

FirstLineMinLength == 10

\* block.split(/\n/)[0].trim()
firstLineOf(block) ==
  LET nl == indexOf(block, "\n", 1) IN
  trim(IF nl = 0 THEN block ELSE Sub(block, 1, nl - 1))

\* The fallback: the block's first line, when it is longer than 10 characters and
\* no bare bullet marker; "" otherwise.
firstLineDescription(firstLine) ==
  IF firstLine # "" /\ Len(firstLine) > FirstLineMinLength /\ ~IsBareBullet(firstLine)
  THEN firstLine
  ELSE ""

\* The description taken from the first-line fallback alone, the labels ignored.
descriptionFromFirstLine(block, labelled) ==
  IF trim(block) # "" THEN firstLineDescription(firstLineOf(block)) ELSE ""

\* description, as the loop over the labels (labelled) and the fallback leave it.
descriptionAfterLabels(block, labelled) ==
  IF labelled # "" THEN labelled
  ELSE IF trim(block) # "" THEN firstLineDescription(firstLineOf(block))
  ELSE ""

descriptionOf(block, lb) == descriptionAfterLabels(block, labelledDescription(block, lb))

riskWords == << "low", "medium", "high", "critical" >>

\* The length of the word of (Low|Medium|High|Critical), in any letter case, that
\* stands at position w; 0 when none does.
RiskWordAt(lb, w) ==
  LET k == First(LAMBDA n : StartsAt(lb, w, riskWords[n]), 1, Len(riskWords)) IN
  IF k > Len(riskWords) THEN 0 ELSE Len(riskWords[k])

\* Risk:\s*(Low|Medium|High|Critical) at position j of the lower-cased block.
RiskLabelAt(lb, j) == StartsAt(lb, j, "risk:") /\ RiskWordAt(lb, SkipWs(lb, j + 5)) # 0

\* The match whose risk word starts at position w.
RiskMatchAt(block, lb, w) == Matched(Sub(block, w, w + RiskWordAt(lb, w) - 1))

\* block.match(/Risk:\s*(Low|Medium|High|Critical)/i): the leftmost "Risk:" that
\* one of the four words follows; the group is the word as the block writes it.
riskMatchOf(block, lb) ==
  LET i == First(LAMBDA j : RiskLabelAt(lb, j), 1, Len(lb)) IN
  IF i > Len(lb) THEN Null ELSE RiskMatchAt(block, lb, SkipWs(lb, i + 5))

\* (?=\n\s*[-\*\d]+\.?\s*Threat:|\n##\s|$) at position j of the lower-cased block.
MitigationEndAt(lb, j) ==
  /\ Ch(lb, j) = "\n"
  /\ \/ StartsAt(lb, ListItemPrefixEnd(lb, j), "threat:")
     \/ StartsAt(lb, j + 1, "##") /\ IsWs(Ch(lb, j + 3))

\* block.match(/Mitigation:\s*([\s\S]*?)(?=\n\s*[-\*\d]+\.?\s*Threat:|\n##\s|$)/i)
mitigationMatchOf(block, lb) ==
  LET i == indexOf(lb, "mitigation:", 1)
      a == SkipWs(lb, i + 11)
  IN  IF i = 0 THEN Null
      ELSE Matched(Sub(block, a, First(LAMBDA j : MitigationEndAt(lb, j), a, Len(lb)) - 1))

(***************************************************************************)
(* parseStrideThreats: the threat a sub-block yields, and the whole parse. *)
(***************************************************************************)

\* riskMatch[1] read without the null check.
riskLevelUnguarded(riskMatch) == Group1(riskMatch)

\* riskMatch ? riskMatch[1] : 'Medium'
riskLevelOf(riskMatch) == IF riskMatch.found THEN Group1(riskMatch) ELSE "Medium"

\* mitigationMatch ? mitigationMatch[1].trim() : 'Mitigation strategy not specified.'
mitigationStrategyOf(mitigationMatch) ==
  IF mitigationMatch.found THEN trim(Group1(mitigationMatch))
  ELSE "Mitigation strategy not specified."

MinBlockLength == 10
MinDescriptionLength == 5

\* The push without the sanity check.
PassesAlways(description) == TRUE

\* if (description.length > 5): the "basic sanity check" before the push.
PassesSanityCheck(description) == Len(description) > MinDescriptionLength

\* if (description) { ... if (description.length > 5) parsedThreats.push({...}) }
threatsOfDescription(block, lb, strideCategory, description) ==
  IF description # "" /\ PassesSanityCheck(description)
  THEN << [ category           |-> strideCategory,
            description        |-> description,
            riskLevel          |-> riskLevelOf(riskMatchOf(block, lb)),
            mitigationStrategy |-> mitigationStrategyOf(mitigationMatchOf(block, lb)) ] >>
  ELSE << >>

\* The loop body for a block that is not skipped, lb being the block in lower case.
threatsOfLowered(block, lb, strideCategory) ==
  threatsOfDescription(block, lb, strideCategory, descriptionOf(block, lb))

\* The body of the loop over blocksToProcess: the threats (none or one) that one
\* block appends to parsedThreats.
threatsOfBlock(block, strideCategory) ==
  IF Len(trim(block)) < MinBlockLength THEN << >>
  ELSE threatsOfLowered(block, toLowerCase(block), strideCategory)

RECURSIVE threatsOfBlocks(_, _, _)
threatsOfBlocks(blocks, strideCategory, k) ==
  IF k > Len(blocks) THEN << >>
  ELSE threatsOfBlock(blocks[k], strideCategory)
       \o threatsOfBlocks(blocks, strideCategory, k + 1)

\* The then-branch of if (strideCategory): the threats of one category block.
threatsOfCategory(categoryContent, strideCategory) ==
  IF strideCategory = "" THEN << >>
  ELSE threatsOfBlocks(blocksToProcessOf(categoryContent), strideCategory, 1)

\* The body of the while loop for one match of categoryRegex.
threatsOfMatch(match) ==
  threatsOfCategory(trim(match.g2), strideCategoryOf(trim(match.g1)))

\* The while loop from the match `match` on.
RECURSIVE parseFrom(_, _)
parseFrom(normalizedResponse, match) ==
  IF ~match.found THEN << >>
  ELSE threatsOfMatch(match)
       \o parseFrom(normalizedResponse, categoryRegexExec(normalizedResponse, match.lastIndex))

\* The parse of a text whose line endings are normalized.
parseNormalized(normalizedResponse) ==
  parseFrom(normalizedResponse, categoryRegexExec(normalizedResponse, 1))

\* parseStrideThreats(aiResponse), as a function of the response text.
parseStrideThreats(aiResponse) == parseNormalized(normalizeLineEndings(aiResponse))

(***************************************************************************)
(* The AI response texts the parser is run on: up to MaxParts parts, one   *)
(* per line group, joined by newlines.                                     *)
(***************************************************************************)

MaxParts == 3

\* A heading line; names is the STRIDE category the heading is about.
Heading(text, names) == [kind |-> "heading", text |-> text, names |-> names]

\* A list item in the shape the prompts ask for; nl is the line ending.
LabelledItem(threat, risk, mitigation, nl) ==
  [ kind |-> "item", threat |-> threat, risk |-> risk, mitigation |-> mitigation,
    text |-> "- Threat: " \o threat \o nl \o "  Risk: " \o risk \o nl
             \o "  Mitigation: " \o mitigation ]

Other(text) == [kind |-> "other", text |-> text]

LongThreatText ==
  "an attacker who has obtained a valid session token replays previously "
  \o "captured requests against the coffee update endpoint and overwrites the "
  \o "stored brand, name and flavors of every coffee"

Parts ==
  << Heading("## Tampering", "Tampering"),
     Heading("**Spoofing**", "Spoofing"),
     Heading("## Elevation of Privilege", "Elevation of Privilege"),
     Heading("## Information Risks", "Information Disclosure"),
     Heading("## Info Disclosure Risks", "Information Disclosure"),
     LabelledItem("bad input", "High", "validate input", "\n"),
     LabelledItem("fake login token", "critical", "verify tokens", "\r\n"),
     LabelledItem("XSS", "Low", "escape output", "\n"),
     LabelledItem(LongThreatText, "Medium", "bind requests to a nonce", "\n"),
     Other("- Threat: a high risk of spoofing and a critical risk of takeover"),
     Other("1. Description: critical risk of data loss, high risk of downtime"),
     Other("- replayed requests are accepted twice"),
     Other("- weak key\n  Risk: High"),
     Other("- Threat:\n  Risk: High"),
     Other("Overall the service looks fine."),
     Other("   ") >>

RECURSIVE JoinLines(_, _)
JoinLines(ps, k) ==
  IF k > Len(ps) THEN ""
  ELSE Parts[ps[k]].text \o (IF k < Len(ps) THEN "\n" ELSE "") \o JoinLines(ps, k + 1)

\* The response text made of the parts ps (indices into Parts).
ResponseOf(ps) == JoinLines(ps, 1)

PartLists == UNION {[1..n -> 1..Len(Parts)] : n \in 0..MaxParts}

(***************************************************************************)
(* The generation run: the environment, what the structural analysis       *)
(* found, what the AI answers, the JSON artifact and the statistics of the *)
(* report.                                                                 *)
(***************************************************************************)

MaxEndpoints == 2
MaxEntities == 1

\* `${endpoint.method} ${endpoint.path}` of the endpoints, in discovery order.
DiscoveredEndpoints == << "GET /coffees", "POST /coffees", "DELETE /coffees/:id" >>

\* Where GOOGLE_API_KEY is set: nowhere, in what ConfigService.get returns only, or
\* in process.env (where the constructor and callGenerativeAI both find it).
ApiKeySources == {"none", "config", "env"}

\* The environment of a run: the key, and USE_MOCK_RESPONSE === 'true'.
Environments == [apiKey : ApiKeySources, useMockResponse : BOOLEAN]

\* A response of three categories, one threat each: 1 High, then 2 Critical.
TwoCriticalOneHigh ==
  "## Tampering\n- Threat: orders can be rewritten\n  Risk: High\n"
  \o "  Mitigation: sign the \"order\" payload\n"
  \o "## Spoofing\n- Threat: stolen session cookie\n  Risk: Critical\n"
  \o "  Mitigation: rotate sessions\n"
  \o "## Repudiation\n- Threat: deletions leave no trace\n  Risk: Critical\n"
  \o "  Mitigation: keep logs under C:\\audit"

\* A response of one category with three threats, all High.
ThreeHigh ==
  "## Denial of Service\n- Threat: unbounded page size\n  Risk: High\n"
  \o "  Mitigation: cap the limit\n"
  \o "- Threat: no rate limiting\n  Risk: High\n  Mitigation: add a throttler\n"
  \o "- Threat: slow regex on input\n  Risk: High\n  Mitigation: bound the input"

\* A response with a single Critical threat.
OneCritical ==
  "## Elevation of Privilege\n- Threat: admin routes lack a guard\n"
  \o "  Risk: Critical\n  Mitigation: add a roles guard"

\* What one call of the AI model comes to: an error (transport, model, key) or a
\* completion text. The texts: prose without a heading, the Tampering item of the
\* prompt's format, a bold Spoofing heading with a lower-case risk word, and the
\* three responses above.
AiOutcomes ==
  { [kind |-> "error", text |-> ""],
    [kind |-> "text",  text |-> "   "],
    [kind |-> "text",  text |-> ResponseOf(<< 15 >>)],
    [kind |-> "text",  text |-> ResponseOf(<< 1, 6 >>)],
    [kind |-> "text",  text |-> ResponseOf(<< 2, 7 >>)],
    [kind |-> "text",  text |-> TwoCriticalOneHigh],
    [kind |-> "text",  text |-> ThreeHigh],
    [kind |-> "text",  text |-> OneCritical] }

\* The lines of the three prompts that tell them apart.
endpointPromptOf(endpoint) == "Endpoint Path: " \o endpoint

\* The first line of the global prompt that tells it from the others.
globalPrompt == "Application Overview:"

(***************************************************************************)
(* The structural analysis: analyzeProjectStructure,                       *)
(* findControllersByPattern and extractEntityDefinitions.                  *)
(***************************************************************************)

\* The controller findControllersByPattern makes of the controller file of the
\* project when the file has nEndpoints method decorators: a controller is pushed
\* only when it has an endpoint. An error of the scan is caught there: no controller.
foundControllers(scanFails, nEndpoints) ==
  IF scanFails \/ nEndpoints = 0 THEN << >>
  ELSE << [name |-> "CoffeesController",
           endpoints |-> SubSeq(DiscoveredEndpoints, 1, nEndpoints)] >>

\* The controller pushed when no controller was found.
FallbackController == [name |-> "FallbackController", endpoints |-> << "GET /" >>]

\* analyzeProjectStructure with the fallback left out.
appStructureWithoutFallback(controllers) ==
  << [name |-> "AppModule", controllers |-> controllers] >>

\* this.appStructure as analyzeProjectStructure leaves it.
appStructureOf(controllers) ==
  << [name |-> "AppModule",
      controllers |-> IF Len(controllers) = 0 THEN << FallbackController >>
                      ELSE controllers] >>

\* The endpoints of controllers k.. of a module, then of the modules after it:
\* the nested loops over this.appStructure, as `${e.method} ${e.path}`.
RECURSIVE endpointsOfControllers(_, _)
endpointsOfControllers(controllers, k) ==
  IF k > Len(controllers) THEN << >>
  ELSE controllers[k].endpoints \o endpointsOfControllers(controllers, k + 1)

RECURSIVE endpointsOfModules(_, _)
endpointsOfModules(structure, k) ==
  IF k > Len(structure) THEN << >>
  ELSE endpointsOfControllers(structure[k].controllers, 1)
       \o endpointsOfModules(structure, k + 1)

\* appStructure.flatMap((m) => m.controllers.map((c) => c.name))
RECURSIVE controllerNamesOf(_, _)
controllerNamesOf(structure, k) ==
  IF k > Len(structure) THEN << >>
  ELSE [n \in 1..Len(structure[k].controllers) |-> structure[k].controllers[n].name]
       \o controllerNamesOf(structure, k + 1)

\* appStructure.some(m => m.controllers.some(c => c.endpoints.length > 0))
hasEndpointsIn(structure) ==
  \E k \in 1..Len(structure) :
    \E n \in 1..Len(structure[k].controllers) :
      Len(structure[k].controllers[n].endpoints) > 0

\* The regular-expression class \w.
IsWordChar(c) ==
  \/ c \in DOMAIN UpperToLower
  \/ \E u \in DOMAIN UpperToLower : UpperToLower[u] = c
  \/ IsDigit(c)
  \/ c = "_"

\* The position after a greedy \w* that starts at i.
SkipWord(s, i) == First(LAMBDA j : ~IsWordChar(Ch(s, j)), i, Len(s))

\* Where group 1 of /export\s+class\s+([\w]+)/ starts for a match at p.
ClassNameStart(content, p) == SkipWs(content, SkipWs(content, p + 6) + 5)

\* /export\s+class\s+([\w]+)/ matches at position p of content.
ClassDeclaredAt(content, p) ==
  /\ StartsAt(content, p, "export")
  /\ SkipWs(content, p + 6) > p + 6
  /\ StartsAt(content, SkipWs(content, p + 6), "class")
  /\ ClassNameStart(content, p) > SkipWs(content, p + 6) + 5
  /\ IsWordChar(Ch(content, ClassNameStart(content, p)))

\* The match of the pattern at p, null past the end of content.
classNameMatchAt(content, p) ==
  IF p > Len(content) THEN Null
  ELSE Matched(Sub(content, ClassNameStart(content, p),
                   SkipWord(content, ClassNameStart(content, p)) - 1))

\* content.match(/export\s+class\s+([\w]+)/): the first match.
classNameMatch(content) ==
  classNameMatchAt(content,
                   First(LAMBDA p : ClassDeclaredAt(content, p), 1, Len(content)))

\* s.replace(sub, ''): the first occurrence of sub taken out.
replaceFirst(s, sub, i) ==
  IF i = 0 THEN s ELSE Sub(s, 1, i - 1) \o Sub(s, i + Len(sub), Len(s))

\* fileName.replace('.entity.ts', '')
entityNameFromFile(fileName) ==
  replaceFirst(fileName, ".entity.ts", indexOf(fileName, ".entity.ts", 1))

\* The name the file name alone gives, whatever the file declares.
entityNameIgnoringClass(file) == entityNameFromFile(file.fileName)

\* classNameMatch ? classNameMatch[1] : entityNameFromFile
entityNameOf(file) ==
  IF classNameMatch(file.content).found THEN classNameMatch(file.content).g1
  ELSE entityNameFromFile(file.fileName)

\* this.entityDefinitions.set(name, content) on the entries of a Map: the value of
\* an existing key is replaced in its place, a new key goes to the end.
mapSet(entries, name, content) ==
  IF \E n \in 1..Len(entries) : entries[n].name = name
  THEN [n \in 1..Len(entries) |->
          IF entries[n].name = name THEN [name |-> name, content |-> content]
          ELSE entries[n]]
  ELSE Append(entries, [name |-> name, content |-> content])

\* extractEntityDefinitions over the entity files from the k-th on: a file without
\* a name is skipped.
RECURSIVE entityDefinitionsOf(_, _, _)
entityDefinitionsOf(files, k, entries) ==
  IF k > Len(files) THEN entries
  ELSE entityDefinitionsOf(files, k + 1,
         IF entityNameOf(files[k]) = "" THEN entries
         ELSE mapSet(entries, entityNameOf(files[k]), files[k].content))

\* Array.from(this.entityDefinitions.keys())
keysOf(entries) == [n \in 1..Len(entries) |-> entries[n].name]

\* An entity class.
CoffeeEntity ==
  [fileName |-> "coffee.entity.ts",
   content  |-> "import { Entity } from 'typeorm';\n\n@Entity()\n"
                \o "export class Coffee {\n  id: number;\n  name: string;\n}\n"]

\* The same entity with another source text.
CoffeeEntityWithSecret ==
  [fileName |-> "coffee.entity.ts",
   content  |-> "@Entity()\nexport  class Coffee {\n  id: number;\n"
                \o "  supplierToken: string;\n}\n"]

\* An entity file that declares no class (Scenario E).
FlavorEntity ==
  [fileName |-> "flavor.entity.ts",
   content  |-> "export const flavors = ['vanilla', 'chocolate'];\n"]

\* An entity file whose first exported class is abstract.
EventEntity ==
  [fileName |-> "event.entity.ts",
   content  |-> "export abstract class Base {\n  id: number;\n}\n\n"
                \o "export class Event extends Base {\n  name: string;\n}\n"]

\* An entity file with a default export.
OrderEntity ==
  [fileName |-> "order.entity.ts",
   content  |-> "@Entity()\nexport default class Order {\n  total: number;\n}\n"]

\* The entity files findEntityFiles can come back with.
EntityFiles == {CoffeeEntity, CoffeeEntityWithSecret, FlavorEntity, EventEntity, OrderEntity}

\* The entity files of the project, in the order findEntityFiles returns them.
DiscoveredEntityFiles == << CoffeeEntity, FlavorEntity >>

\* What the scan of a project comes to: whether reading the sources fails, the
\* number of endpoints of its controller file, and its entity files.
Projects(fileLists) ==
  { [scanFails |-> f, nEndpoints |-> n, nEntities |-> Len(files), entityFiles |-> files] :
      f \in BOOLEAN, n \in 0..MaxEndpoints, files \in fileLists }

(***************************************************************************)
(* Paths (Node's path module, POSIX), for paths without '..' segments.     *)
(***************************************************************************)

\* process.cwd(), the projectRoot of the run.
projectRoot == "/app"

\* The segments of p from position i, split at '/'.
RECURSIVE segmentsFrom(_, _)
segmentsAfter(p, i, j) ==
  IF j > Len(p) THEN << Sub(p, i, Len(p)) >>
  ELSE << Sub(p, i, j - 1) >> \o segmentsFrom(p, j + 1)

segmentsFrom(p, i) ==
  IF i > Len(p) THEN << >>
  ELSE segmentsAfter(p, i, First(LAMBDA j : Ch(p, j) = "/", i, Len(p)))

\* The segments joined with sep: Array.prototype.join.
RECURSIVE join(_, _, _)
join(items, sep, k) ==
  IF k > Len(items) THEN ""
  ELSE IF k = Len(items) THEN items[k]
  ELSE items[k] \o sep \o join(items, sep, k + 1)

\* path.normalize: empty and '.' segments dropped.
normalize(p) ==
  (IF StartsAt(p, 1, "/") THEN "/" ELSE "")
  \o join(SelectSeq(segmentsFrom(p, 1), LAMBDA seg : seg # "" /\ seg # "."), "/", 1)

\* path.join(dir, name)
pathJoin(dir, name) == normalize(dir \o "/" \o name)

\* path.resolve(p): against process.cwd() when p is relative.
pathResolve(p) ==
  IF StartsAt(p, 1, "/") THEN normalize(p) ELSE normalize(projectRoot \o "/" \o p)

\* The --output-path values of a run; "" when the option is not given.
OutputPaths == {"", "./reports", "/srv/out"}

\* options.outputPath || this.projectRoot
outputDirOf(outputPath) == IF outputPath = "" THEN projectRoot ELSE outputPath

\* The file fs.writeFile writes for path.join(outputDir, name): the path is taken
\* from the working directory.
writtenFileOf(outputDir, name) == pathResolve(pathJoin(outputDir, name))

\* jsonPath and reportPath of generateAIStrideModel.
resultOf(outputPath) ==
  [returned   |-> TRUE,
   jsonPath   |-> pathJoin(IF outputPath # "" THEN pathResolve(outputPath)
                           ELSE pathResolve(projectRoot), "threat-model.json"),
   reportPath |-> pathJoin(IF outputPath # "" THEN pathResolve(outputPath)
                           ELSE pathResolve(projectRoot), "threat-model-report.md")]

NoResult == [returned |-> FALSE, jsonPath |-> "", reportPath |-> ""]

(***************************************************************************)
(* The prompts.                                                            *)
(***************************************************************************)

\* String(n) of a natural number.
Digits == << "0", "1", "2", "3", "4", "5", "6", "7", "8", "9" >>

RECURSIVE numberToString(_)
numberToString(n) ==
  IF n < 10 THEN Digits[n + 1]
  ELSE numberToString(n \div 10) \o Digits[(n % 10) + 1]

\* items.join(', ') || 'N/A'
joinedOrNA(items) == IF join(items, ", ", 1) = "" THEN "N/A" ELSE join(items, ", ", 1)

maxDefLength == 2000

\* entityDef cut to maxDefLength characters.
truncatedEntityDef(entityDef) ==
  IF Len(entityDef) > maxDefLength
  THEN Sub(entityDef, 1, maxDefLength) \o "\n... (truncated)"
  ELSE entityDef

\* The lines of the prompt of generateDataThreatModel that depend on the entity.
entityPromptOf(entityName, entityDef) ==
  "Entity Name: " \o entityName \o "\nEntity Definition (TypeScript):\n"
  \o truncatedEntityDef(entityDef)

\* The applicationSummary of generateGlobalThreatAnalysis.
applicationSummaryOf(structure, definitions) ==
  [controllers |-> controllerNamesOf(structure, 1),
   endpoints   |-> endpointsOfModules(structure, 1),
   entities    |-> keysOf(definitions),
   modules     |-> [k \in 1..Len(structure) |-> structure[k].name]]

\* The source texts of the entity definitions.
RECURSIVE contentsOf(_, _)
contentsOf(definitions, k) ==
  IF k > Len(definitions) THEN ""
  ELSE definitions[k].content \o contentsOf(definitions, k + 1)

\* The lines of the prompt of generateGlobalThreatAnalysis that depend on the
\* application.
overviewOf(summary) ==
  globalPrompt
  \o "\n- Modules: " \o joinedOrNA(summary.modules)
  \o "\n- Controllers: " \o joinedOrNA(summary.controllers)
  \o "\n- Total Endpoints Found: " \o numberToString(Len(summary.endpoints))
  \o "\n- Data Entities Found: " \o joinedOrNA(summary.entities)

\* A global prompt that quotes the entity definitions.
globalPromptQuotingSources(structure, definitions) ==
  overviewOf(applicationSummaryOf(structure, definitions))
  \o "\n" \o contentsOf(definitions, 1)

\* The prompt of generateGlobalThreatAnalysis: the summary, no source text.
globalPromptOf(structure, definitions) ==
  overviewOf(applicationSummaryOf(structure, definitions))

endpointMockResponse ==
  "\n"
  \o "## Spoofing\n"
  \o "- Threat: Authentication bypass through session manipulation.\n"
  \o "  Risk: Medium\n"
  \o "  Mitigation: Implement proper JWT-based authentication with short-lived tokens and refresh mechanism.\n"
  \o "\n"
  \o "## Tampering\n"
  \o "- Threat: Malicious modification of request data.\n"
  \o "  Risk: High\n"
  \o "  Mitigation: Use NestJS ValidationPipe with strict DTOs and whitelist validation.\n"
  \o "\n"
  \o "## Information Disclosure\n"
  \o "- Threat: Sensitive data exposure through error messages.\n"
  \o "  Risk: Medium\n"
  \o "  Mitigation: Implement a global exception filter that sanitizes error details in production.\n"
  \o "      "

entityMockResponse ==
  "\n"
  \o "## Tampering\n"
  \o "- Threat: Unauthorized modification of entity data.\n"
  \o "  Risk: High\n"
  \o "  Mitigation: Implement RBAC using NestJS guards and ensure proper access control checks.\n"
  \o "\n"
  \o "## Information Disclosure\n"
  \o "- Threat: Leakage of sensitive entity data.\n"
  \o "  Risk: Medium\n"
  \o "  Mitigation: Use data transformation via interceptors to filter out sensitive fields.\n"
  \o "      "

globalMockResponse ==
  "\n"
  \o "## Spoofing\n"
  \o "- Threat: Inadequate authentication mechanisms.\n"
  \o "  Risk: High\n"
  \o "  Mitigation: Implement multi-factor authentication and proper session management.\n"
  \o "\n"
  \o "## Denial of Service\n"
  \o "- Threat: Lack of rate limiting allows attackers to overwhelm resources.\n"
  \o "  Risk: Medium\n"
  \o "  Mitigation: Use @nestjs/throttler to implement rate limiting on all endpoints.\n"
  \o "      "

defaultMockResponse ==
  "\n"
  \o "## Information Disclosure\n"
  \o "- Threat: Sensitive information exposure in logs or error messages.\n"
  \o "  Risk: Medium\n"
  \o "  Mitigation: Implement proper error handling and log sanitization.\n"
  \o "    "

\* getMockResponseForPrompt: the kind of prompt decides the mock response.
getMockResponseForPrompt(prompt) ==
  IF includes(prompt, "Endpoint Path:") THEN endpointMockResponse
  ELSE IF includes(prompt, "Entity Name:") THEN entityMockResponse
  ELSE IF includes(prompt, "Application Overview:") THEN globalMockResponse
  ELSE defaultMockResponse

\* callGenerativeAI in the environment e, the model's call coming to outcome: the
\* mock response with USE_MOCK_RESPONSE; otherwise "" when process.env holds no key
\* (the throw is caught), "" for every error and for a blank completion, and the
\* text of the completion.
callGenerativeAI(e, prompt, outcome) ==
  IF e.useMockResponse THEN getMockResponseForPrompt(prompt)
  ELSE IF e.apiKey # "env" THEN ""
  ELSE IF outcome.kind = "error" THEN ""
  ELSE IF outcome.text = "" \/ Len(trim(outcome.text)) = 0 THEN ""
  ELSE outcome.text

\* The response texts callGenerativeAI can return: the completions of AiOutcomes
\* and the mock responses.
ResponseTexts ==
  {outcome.text : outcome \in AiOutcomes}
  \cup {endpointMockResponse, entityMockResponse, globalMockResponse, defaultMockResponse}

\* this.parseStrideThreats(text) of each of the response texts.
ParsedResponses == [text \in ResponseTexts |-> parseStrideThreats(text)]

\* What parseStrideThreats returns for each response text, worked out once at the
\* start of the run and looked up at every call.
VARIABLE parsed

\* this.parseStrideThreats(aiResponse)
parsedThreatsOf(aiResponse) == parsed[aiResponse]

\* Promise<ThreatModel | null>: null.
NullModel == [assetName |-> "", assetType |-> "null", threats |-> << >>]

\* A promise of generateAIThreatModels that has not settled yet.
Pending == [settled |-> FALSE, value |-> NullModel]

Settled(value) == [settled |-> TRUE, value |-> value]

\* An endpoint model that an empty response leaves without threats.
emptyEndpointThreatModel(endpoint, aiResponse) ==
  [assetName |-> endpoint, assetType |-> "endpoint",
   threats |-> IF aiResponse = "" \/ Len(trim(aiResponse)) = 0 THEN << >>
               ELSE parsedThreatsOf(aiResponse)]

\* generateEndpointThreatModel once the AI call returned aiResponse.
generateEndpointThreatModel(endpoint, aiResponse) ==
  IF aiResponse = "" \/ Len(trim(aiResponse)) = 0 THEN NullModel
  ELSE [assetName |-> endpoint, assetType |-> "endpoint",
        threats |-> parsedThreatsOf(aiResponse)]

\* generateDataThreatModel once the AI call returned aiResponse.
generateDataThreatModel(entityName, aiResponse) ==
  IF aiResponse = "" \/ Len(trim(aiResponse)) = 0 THEN NullModel
  ELSE [assetName |-> entityName, assetType |-> "data",
        threats |-> parsedThreatsOf(aiResponse)]

\* The model generateGlobalThreatAnalysis makes of the threats it parsed.
globalThreatModel(threats) ==
  [assetName |-> "Global Application Architecture", assetType |-> "process",
   threats |-> threats]

\* What generateGlobalThreatAnalysis pushes onto threatModels: nothing for a blank
\* response and for a response without threats.
globalThreatModelsOf(aiResponse) ==
  IF aiResponse = "" \/ Len(trim(aiResponse)) = 0 THEN << >>
  ELSE IF Len(parsedThreatsOf(aiResponse)) = 0 THEN << >>
  ELSE << globalThreatModel(parsedThreatsOf(aiResponse)) >>

\* The results in the opposite order.
RECURSIVE nonNullModelsReversed(_, _)
nonNullModelsReversed(results, k) ==
  IF k > Len(results) THEN << >>
  ELSE nonNullModelsReversed(results, k + 1)
       \o (IF results[k].value = NullModel THEN << >> ELSE << results[k].value >>)

\* results.filter((tm) => tm !== null), of settled promises, in their order.
RECURSIVE nonNullModels(_, _)
nonNullModels(results, k) ==
  IF k > Len(results) THEN << >>
  ELSE (IF results[k].value = NullModel THEN << >> ELSE << results[k].value >>)
       \o nonNullModels(results, k + 1)

\* Array.prototype.unshift in the place of push.
unshiftModels(threatModels, models) == models \o threatModels

\* this.threatModels.push(...models)
pushModels(threatModels, models) == threatModels \o models

(***************************************************************************)
(* threat-model.json: JSON.stringify(this.threatModels, null, 2), and      *)
(* JSON.parse for reading it back.                                         *)
(***************************************************************************)

\* The characters of a string that JSON.stringify writes as an escape sequence.
NeedsEscape(c) == c \in {"\"", "\\", "\n", "\r", "\t", "\f"}

\* The character c written into a JSON string as it is.
copiedUnescaped(c) == c

\* The escape sequence JSON.stringify writes for the character c.
EscapeOf(c) ==
  CASE c = "\"" -> "\\\""
    [] c = "\\" -> "\\\\"
    [] c = "\n" -> "\\n"
    [] c = "\r" -> "\\r"
    [] c = "\t" -> "\\t"
    [] c = "\f" -> "\\f"
    [] OTHER    -> c

\* The character that the escape sequence backslash-c of a JSON string stands for.
UnescapeOf(c) ==
  CASE c = "n" -> "\n"
    [] c = "r" -> "\r"
    [] c = "t" -> "\t"
    [] c = "f" -> "\f"
    [] OTHER   -> c

\* s from position i, up to and including the escape of the character at j.
RECURSIVE EscapedFrom(_, _)
EscapedUpTo(s, i, j) ==
  IF j > Len(s) THEN Sub(s, i, Len(s))
  ELSE Sub(s, i, j - 1) \o EscapeOf(Ch(s, j)) \o EscapedFrom(s, j + 1)

\* The characters of s from position i, escaped.
EscapedFrom(s, i) ==
  IF i > Len(s) THEN ""
  ELSE EscapedUpTo(s, i, First(LAMBDA q : NeedsEscape(Ch(s, q)), i, Len(s)))

\* JSON.stringify of a string: quoted, escaped.
stringifyString(s) == "\"" \o EscapedFrom(s, 1) \o "\""

\* The indentation of nesting depth d (two spaces a level).
Indent(d) == SubSeq("            ", 1, 2 * d)

\* "key": value, at depth d.
Member(d, key, text) == Indent(d) \o stringifyString(key) \o ": " \o text

\* JSON.stringify of one threat, at depth d.
stringifyThreat(t, d) ==
  "{\n" \o Member(d + 1, "category", stringifyString(t.category)) \o ",\n"
        \o Member(d + 1, "description", stringifyString(t.description)) \o ",\n"
        \o Member(d + 1, "riskLevel", stringifyString(t.riskLevel)) \o ",\n"
        \o Member(d + 1, "mitigationStrategy", stringifyString(t.mitigationStrategy))
        \o "\n" \o Indent(d) \o "}"

RECURSIVE stringifyThreatsFrom(_, _, _)
stringifyThreatsFrom(threats, k, d) ==
  Indent(d) \o stringifyThreat(threats[k], d)
  \o (IF k < Len(threats) THEN ",\n" \o stringifyThreatsFrom(threats, k + 1, d)
      ELSE "\n")

\* JSON.stringify of the threats array whose elements are at depth d.
stringifyThreats(threats, d) ==
  IF Len(threats) = 0 THEN "[]"
  ELSE "[\n" \o stringifyThreatsFrom(threats, 1, d) \o Indent(d - 1) \o "]"

\* JSON.stringify of one ThreatModel, at depth d.
stringifyModel(tm, d) ==
  "{\n" \o Member(d + 1, "assetName", stringifyString(tm.assetName)) \o ",\n"
        \o Member(d + 1, "assetType", stringifyString(tm.assetType)) \o ",\n"
        \o Member(d + 1, "threats", stringifyThreats(tm.threats, d + 2))
        \o "\n" \o Indent(d) \o "}"

RECURSIVE stringifyModelsFrom(_, _)
stringifyModelsFrom(models, k) ==
  Indent(1) \o stringifyModel(models[k], 1)
  \o (IF k < Len(models) THEN ",\n" \o stringifyModelsFrom(models, k + 1)
      ELSE "\n")

\* JSON.stringify(this.threatModels, null, 2)
stringifyThreatModels(models) ==
  IF Len(models) = 0 THEN "[]"
  ELSE "[\n" \o stringifyModelsFrom(models, 1) \o "]"

\* A parsed value and the position after it.
Parsed(value, next) == [value |-> value, next |-> next]

\* The position of the quote that closes the JSON string whose characters start
\* at i: the first quote that no backslash escapes.
RECURSIVE StringEnd(_, _)
StringEndAfter(s, j) ==
  IF Ch(s, j) = "\\" THEN StringEnd(s, j + 2) ELSE j

StringEnd(s, i) ==
  StringEndAfter(s, First(LAMBDA q : Ch(s, q) = "\"" \/ Ch(s, q) = "\\", i, Len(s)))

\* The characters i..n of a JSON string, the escape sequences decoded.
RECURSIVE UnescapedFrom(_, _, _)
UnescapedUpTo(s, i, j, n) ==
  IF j > n THEN Sub(s, i, n)
  ELSE Sub(s, i, j - 1) \o UnescapeOf(Ch(s, j + 1)) \o UnescapedFrom(s, j + 2, n)

UnescapedFrom(s, i, n) ==
  IF i > n THEN ""
  ELSE UnescapedUpTo(s, i, First(LAMBDA q : Ch(s, q) = "\\", i, n), n)

\* The JSON string whose opening quote is at i and whose closing quote is at e.
ParsedString(s, i, e) == Parsed(UnescapedFrom(s, i + 1, e - 1), e + 1)

RECURSIVE ParseValue(_, _)
RECURSIVE ParseElements(_, _, _)
RECURSIVE ParseMembers(_, _, _)

\* After the element v of an array: a comma and the next element, or the end.
ElementsAfter(s, acc, v, q) ==
  IF Ch(s, q) = "," THEN ParseElements(s, SkipWs(s, q + 1), Append(acc, v.value))
  ELSE Parsed(Append(acc, v.value), q + 1)

ElementsWith(s, acc, v) == ElementsAfter(s, acc, v, SkipWs(s, v.next))

\* The elements of an array from position i (after the bracket or a comma).
ParseElements(s, i, acc) ==
  IF Ch(s, i) = "]" THEN Parsed(acc, i + 1)
  ELSE ElementsWith(s, acc, ParseValue(s, i))

\* After the member key: v of an object: a comma and the next member, or the end.
MembersAfter(s, acc, key, v, q) ==
  IF Ch(s, q) = "," THEN ParseMembers(s, SkipWs(s, q + 1), (key :> v.value) @@ acc)
  ELSE Parsed((key :> v.value) @@ acc, q + 1)

MembersWith(s, acc, key, v) == MembersAfter(s, acc, key, v, SkipWs(s, v.next))

\* The member whose key has been read: the colon, then the value.
MemberOfKey(s, acc, key) ==
  MembersWith(s, acc, key.value, ParseValue(s, SkipWs(s, SkipWs(s, key.next) + 1)))

\* The members of an object from position i (after the brace or a comma).
ParseMembers(s, i, acc) ==
  IF Ch(s, i) = "}" THEN Parsed(acc, i + 1)
  ELSE MemberOfKey(s, acc, ParsedString(s, i, StringEnd(s, i + 1)))

\* The JSON value that starts at position i: an array, an object or a string.
ParseValue(s, i) ==
  IF Ch(s, i) = "[" THEN ParseElements(s, SkipWs(s, i + 1), << >>)
  ELSE IF Ch(s, i) = "{" THEN ParseMembers(s, SkipWs(s, i + 1), << >>)
  ELSE ParsedString(s, i, StringEnd(s, i + 1))

\* JSON.parse(text)
parseJSON(text) == ParseValue(text, SkipWs(text, 1)).value

(***************************************************************************)
(* generateMarkdownReport: the statistics of the report.                   *)
(***************************************************************************)

\* threatModels.flatMap((tm) => tm.threats.map(...)): the threats of all models.
RECURSIVE allThreatDetailsOf(_, _)
allThreatDetailsOf(models, k) ==
  IF k > Len(models) THEN << >>
  ELSE models[k].threats \o allThreatDetailsOf(models, k + 1)

\* threatModels.reduce((acc, tm) => acc + tm.threats.length, 0)
RECURSIVE totalThreatsOf(_, _)
totalThreatsOf(models, k) ==
  IF k > Len(models) THEN 0
  ELSE Len(models[k].threats) + totalThreatsOf(models, k + 1)

\* The risk levels in the order the report lists them.
reportRiskLevels == << "Critical", "High", "Medium", "Low" >>

\* allThreatDetails.filter((t) => t.riskLevel === level).length
riskCount(details, level) ==
  Cardinality({k \in 1..Len(details) : details[k].riskLevel = level})

\* totalThreats > 0 ? ((count / totalThreats) * 100).toFixed(1) : '0.0', as a number
\* of tenths: toFixed(1) rounds to the nearest tenth, a tie upwards.
riskPercentage(count, totalThreats) ==
  IF totalThreats > 0 THEN (2000 * count + totalThreats) \div (2 * totalThreats)
  ELSE 0

\* Array.prototype.sort((a, b) => score(b) - score(a)), a stable sort: the position
\* of the element of rank k, i.e. the one with k - 1 elements before it, those of a
\* greater score and those of the same score that stood before it.
sortedPosition(scores, k) ==
  CHOOSE i \in 1..Len(scores) :
    Cardinality({j \in 1..Len(scores) :
                   scores[j] > scores[i] \/ (scores[j] = scores[i] /\ j < i)}) = k - 1

\* The items in the order of the sort, by their scores descending.
sortedByScore(items, scores) ==
  [k \in 1..Len(items) |-> items[sortedPosition(scores, k)]]

\* The keys of threatCategoryCount in insertion order: the categories of the
\* threats in the order of their first occurrence.
RECURSIVE categoriesOf(_, _, _)
categoriesOf(details, k, seen) ==
  IF k > Len(details) THEN seen
  ELSE categoriesOf(details, k + 1,
         IF \E n \in 1..Len(seen) : seen[n] = details[k].category THEN seen
         ELSE Append(seen, details[k].category))

\* threatCategoryCount.get(category)
categoryCount(details, category) ==
  Cardinality({k \in 1..Len(details) : details[k].category = category})

\* Array.from(threatCategoryCount.entries())
categoryEntries(details, categories) ==
  [n \in 1..Len(categories) |->
     [category |-> categories[n], count |-> categoryCount(details, categories[n])]]

TopCategories == 5

\* entries.sort((a, b) => b[1] - a[1]).slice(0, 5)
sortedEntries(entries) ==
  SubSeq(sortedByScore(entries, [n \in 1..Len(entries) |-> entries[n].count]),
         1, IF Len(entries) < TopCategories THEN Len(entries) ELSE TopCategories)

sortedCategoriesOf(details) ==
  sortedEntries(categoryEntries(details, categoriesOf(details, 1, << >>)))

\* model.threats.filter(t => t.riskLevel === 'Critical').length
criticalCountOf(model) ==
  Cardinality({k \in 1..Len(model.threats) : model.threats[k].riskLevel = "Critical"})

\* model.threats.filter(t => t.riskLevel === 'High').length
highCountOf(model) ==
  Cardinality({k \in 1..Len(model.threats) : model.threats[k].riskLevel = "High"})

\* The score of the comparator: criticalCount * 2 + highCount
vulnerabilityScore(model) == criticalCountOf(model) * 2 + highCountOf(model)

\* What the report prints of a highlighted asset.
highlightOf(model) ==
  [assetName |-> model.assetName, criticalCount |-> criticalCountOf(model),
   highCount |-> highCountOf(model)]

\* The sort of the highlighted assets.
sortedByVulnerability(models) ==
  sortedByScore(models, [n \in 1..Len(models) |-> vulnerabilityScore(models[n])])

\* threatModels.filter(assetType).map(counts).filter(criticalCount > 0 ||
\* highCount > 0).sort(...), as the report prints the assets.
withHighCriticalOf(models, assetType) ==
  sortedByVulnerability(
    SelectSeq(models, LAMBDA tm : /\ tm.assetType = assetType
                                  /\ (criticalCountOf(tm) > 0 \/ highCountOf(tm) > 0)))

highlightsOf(models) == [n \in 1..Len(models) |-> highlightOf(models[n])]

HighlightedEndpoints == 10

\* endpointsWithHighCritical.slice(0, 10)
endpointHighlightsOf(models) ==
  SubSeq(highlightsOf(withHighCriticalOf(models, "endpoint")), 1,
         IF Len(withHighCriticalOf(models, "endpoint")) < HighlightedEndpoints
         THEN Len(withHighCriticalOf(models, "endpoint")) ELSE HighlightedEndpoints)

entityHighlightsOf(models) == highlightsOf(withHighCriticalOf(models, "data"))

\* riskOrder[riskLevel] || 0
riskOrder(riskLevel) ==
  CASE riskLevel = "Critical" -> 4
    [] riskLevel = "High"     -> 3
    [] riskLevel = "Medium"   -> 2
    [] riskLevel = "Low"      -> 1
    [] OTHER                  -> 0

\* globalModel.threats.sort((a, b) => riskOrder[b.riskLevel] - riskOrder[a.riskLevel]):
\* the array of the model itself, sorted in place.
sortedInPlace(threats) ==
  sortedByScore(threats, [n \in 1..Len(threats) |-> riskOrder(threats[n].riskLevel)])

\* this.threatModels.find(tm => tm.assetType === 'process'), as a position; past
\* the end when there is none.
globalModelIndex(models) ==
  First(LAMBDA k : models[k].assetType = "process", 1, Len(models))

\* this.threatModels once generateMarkdownReport has run: without any threat it
\* returns early; otherwise the threats of the global model are sorted.
modelsAfterReport(models) ==
  IF totalThreatsOf(models, 1) = 0 THEN models
  ELSE [k \in 1..Len(models) |->
          IF k = globalModelIndex(models)
          THEN [models[k] EXCEPT !.threats = sortedInPlace(models[k].threats)]
          ELSE models[k]]

\* The heading of a section that is rendered under a condition.
sectionIf(rendered, heading) == IF rendered THEN << heading >> ELSE << >>

\* The headings of the sections of a report with threats, in the order of the
\* report.
sectionsOf(models, details) ==
  << "Executive Summary", "Risk Level Distribution", "Asset Analysis Summary" >>
  \o sectionIf(Len(sortedCategoriesOf(details)) > 0, "Top Threat Categories by Frequency")
  \o sectionIf(riskCount(details, "Critical") > 0,
               "Critical Vulnerabilities (Immediate Attention Required)")
  \o sectionIf(riskCount(details, "High") > 0, "High-Risk Vulnerabilities")
  \o sectionIf(\E k \in 1..Len(models) : models[k].assetType = "endpoint",
               "API Endpoint Security Highlights")
  \o sectionIf(\E k \in 1..Len(models) : models[k].assetType = "data",
               "Data Entity Security Highlights")
  \o (IF \E k \in 1..Len(models) :
            models[k].assetType = "process" /\ Len(models[k].threats) > 0
      THEN << "Global & Architectural Recommendations" >>
      ELSE << "General Security Recommendations" >>)
  \o << "Recommended Prioritization", "Conclusion" >>

\* The statistics of a report with threats.
statisticsOf(models, details, totalThreats) ==
  [written |-> TRUE, totalThreats |-> totalThreats,
   notice |-> FALSE, sections |-> sectionsOf(models, details),
   riskCounts |->
     [n \in 1..Len(reportRiskLevels) |-> riskCount(details, reportRiskLevels[n])],
   riskPercentages |->
     [n \in 1..Len(reportRiskLevels) |->
        riskPercentage(riskCount(details, reportRiskLevels[n]), totalThreats)],
   sortedCategories |-> sortedCategoriesOf(details),
   endpointHighlights |-> endpointHighlightsOf(models),
   entityHighlights |-> entityHighlightsOf(models)]

\* A report that renders every section whatever the total.
reportWithoutNotice(models) ==
  statisticsOf(models, allThreatDetailsOf(models, 1), totalThreatsOf(models, 1))

\* The statistics generateMarkdownReport puts in the report: for no threat at all
\* the notice alone, without counts, percentages and rankings.
reportOf(models) ==
  IF totalThreatsOf(models, 1) = 0
  THEN [written |-> TRUE, totalThreats |-> 0,
        notice |-> TRUE, sections |-> << "Executive Summary" >>,
        riskCounts |-> << >>, riskPercentages |-> << >>, sortedCategories |-> << >>,
        endpointHighlights |-> << >>, entityHighlights |-> << >>]
  ELSE statisticsOf(models, allThreatDetailsOf(models, 1), totalThreatsOf(models, 1))

NoReport == [written |-> FALSE, totalThreats |-> 0,
             notice |-> FALSE, sections |-> << >>,
             riskCounts |-> << >>, riskPercentages |-> << >>, sortedCategories |-> << >>,
             endpointHighlights |-> << >>, entityHighlights |-> << >>]

(***************************************************************************)
(* State.                                                                  *)
(***************************************************************************)

VARIABLES
  \* parseStrideThreats, one call step by step
  parts,              \* the parts the response text is made of (indices into Parts)
  aiResponse,         \* the argument of parseStrideThreats
  normalizedResponse, \* aiResponse with \r\n replaced by \n
  parserPc,           \* "idle" (no call), "exec" (at the while condition), "body"
                      \* (in the loop body, before the if), "blocks" (in the loop
                      \* over blocksToProcess), "return" (after the while loop),
                      \* "done" (returned), "threw"
  lastIndex,          \* categoryRegex.lastIndex, as a 1-based position
  match,              \* what categoryRegex.exec returned last
  strideCategory,     \* the category matched to the heading, "" when undefined
  blocksToProcess,    \* the sub-blocks of the current category block
  blockIdx,           \* the next block of the for loop
  parsedThreats,      \* the threats pushed so far; the return value at "done"
  warnings,           \* what console.warn was called with
  \* generateThreatModel, one run
  phase,              \* "idle" (no run), "new" (generateAIStrideModel called),
                      \* "failed", "analyze", "start", "endpoints", "entities",
                      \* "global", "write", "report", "finished" (generateThreatModel
                      \* done), "returned" (the CLI action done)
  env,                \* the environment: where the API key is, USE_MOCK_RESPONSE
  options,            \* the options given: includeGlobalThreats, includeEntityThreats,
                      \* outputPath
  project,            \* what the scan of the project comes to
  endpoints,          \* the endpoints of appStructure, in discovery order
  entities,           \* the keys of entityDefinitions, in insertion order
  endpointResults,    \* the promises of endpointPromises
  entityResults,      \* the promises of entityPromises
  aiCalls,            \* the calls of callGenerativeAI, in the order they returned
  threatModels,       \* this.threatModels
  writtenModels,      \* what writeThreatModelToFile serialized to threat-model.json
  threatModelJson,    \* the text of threat-model.json
  report,             \* the statistics of threat-model-report.md
  cli,                \* the CLI process: whether it has exited, its exit code, and
                      \* its application context ("open", "closed")
  completions,        \* what a call of the AI model can come to in this run
  appStructure,       \* this.appStructure: the modules and their controllers
  entityDefinitions,  \* this.entityDefinitions: the entries of the Map
  files,              \* the files the run has written, by their location
  result              \* what generateAIStrideModel returned to the CLI action

parserVars ==
  << parts, aiResponse, normalizedResponse, parserPc, lastIndex, match, strideCategory,
     blocksToProcess, blockIdx, parsedThreats, warnings >>

runVars ==
  << parsed, phase, env, options, project, endpoints, entities, endpointResults, entityResults,
     aiCalls, threatModels, writtenModels, threatModelJson, report, cli, completions,
     appStructure, entityDefinitions, files, result >>

vars == << parserVars, runVars >>

(***************************************************************************)
(* parseStrideThreats as a state machine.                                  *)
(***************************************************************************)

\* The parser's variables at the call on the text made of the parts ps:
\* parsedThreats = [], the line endings normalized, the regex at the start.
ParserCalled(ps) ==
  /\ parts = ps
  /\ aiResponse = ResponseOf(ps)
  /\ normalizedResponse = normalizeLineEndings(ResponseOf(ps))
  /\ parserPc = "exec"
  /\ lastIndex = 1
  /\ match = NoMatch
  /\ strideCategory = ""
  /\ blocksToProcess = << >>
  /\ blockIdx = 1
  /\ parsedThreats = << >>
  /\ warnings = << >>

\* No call of the parser is being followed.
ParserIdle ==
  /\ parts = << >>
  /\ aiResponse = ""
  /\ normalizedResponse = ""
  /\ parserPc = "idle"
  /\ lastIndex = 1
  /\ match = NoMatch
  /\ strideCategory = ""
  /\ blocksToProcess = << >>
  /\ blockIdx = 1
  /\ parsedThreats = << >>
  /\ warnings = << >>

\* No run of the generator is being followed.
RunIdle ==
  /\ parsed = << >>
  /\ phase = "idle"
  /\ env = [apiKey |-> "env", useMockResponse |-> FALSE]
  /\ completions = {}
  /\ options = [includeGlobalThreats |-> TRUE, includeEntityThreats |-> TRUE,
                outputPath |-> ""]
  /\ project = [scanFails |-> FALSE, nEndpoints |-> 0, nEntities |-> 0,
                entityFiles |-> << >>]
  /\ appStructure = << >>
  /\ entityDefinitions = << >>
  /\ files = {}
  /\ result = NoResult
  /\ endpoints = << >>
  /\ entities = << >>
  /\ endpointResults = << >>
  /\ entityResults = << >>
  /\ aiCalls = << >>
  /\ threatModels = << >>
  /\ writtenModels = [written |-> FALSE, models |-> << >>]
  /\ threatModelJson = ""
  /\ report = NoReport
  /\ cli = [exited |-> FALSE, exitCode |-> 0, appCtx |-> "none"]

ParserStart(ps) == ParserCalled(ps) /\ RunIdle

\* while ((match = categoryRegex.exec(normalizedResponse)) !== null): exec sets
\* lastIndex to the end of the match, and back to the start when there is none.
ExecCategoryRegex ==
  /\ parserPc = "exec"
  /\ \E m \in {categoryRegexExec(normalizedResponse, lastIndex)} :
       /\ match' = m
       /\ lastIndex' = IF m.found THEN m.lastIndex ELSE 1
       /\ parserPc' = IF m.found THEN "body" ELSE "return"
  /\ UNCHANGED << parts, aiResponse, normalizedResponse, strideCategory,
                  blocksToProcess, blockIdx, parsedThreats, warnings >>
  /\ UNCHANGED runVars

\* if (strideCategory): the heading matches a STRIDE category and the block is
\* split into sub-blocks.
CategoryBlock ==
  /\ parserPc = "body"
  /\ \E cat \in {strideCategoryOf(trim(match.g1))} :
       /\ cat # ""
       /\ strideCategory' = cat
  /\ blocksToProcess' = blocksToProcessOf(trim(match.g2))
  /\ blockIdx' = 1
  /\ parserPc' = "blocks"
  /\ UNCHANGED << parts, aiResponse, normalizedResponse, lastIndex, match,
                  parsedThreats, warnings >>
  /\ UNCHANGED runVars

\* The else branch: the heading matches no category; a warning, nothing pushed.
UnmatchedHeading ==
  /\ parserPc = "body"
  /\ strideCategoryOf(trim(match.g1)) = ""
  /\ strideCategory' = ""
  /\ warnings' = Append(warnings, [kind |-> "unmatched heading",
                                   heading |-> trim(match.g1)])
  /\ parserPc' = "exec"
  /\ UNCHANGED << parts, aiResponse, normalizedResponse, lastIndex, match,
                  blocksToProcess, blockIdx, parsedThreats >>
  /\ UNCHANGED runVars

\* The fields of the pushed threat hold the TypeError: the iteration threw.
Threw(pushed) ==
  \E k \in 1..Len(pushed) :
    TypeError \in {pushed[k].description, pushed[k].riskLevel,
                   pushed[k].mitigationStrategy}

\* One iteration of for (const block of blocksToProcess).
ProcessBlock ==
  /\ parserPc = "blocks"
  /\ blockIdx <= Len(blocksToProcess)
  /\ \E pushed \in {threatsOfBlock(blocksToProcess[blockIdx], strideCategory)} :
       /\ parsedThreats' = IF Threw(pushed) THEN parsedThreats
                           ELSE parsedThreats \o pushed
       /\ parserPc' = IF Threw(pushed) THEN "threw"
                      ELSE IF blockIdx = Len(blocksToProcess) THEN "exec"
                      ELSE "blocks"
  /\ blockIdx' = blockIdx + 1
  /\ UNCHANGED << parts, aiResponse, normalizedResponse, lastIndex, match,
                  strideCategory, blocksToProcess, warnings >>
  /\ UNCHANGED runVars

\* After the loop: the final warning when nothing was parsed from a non-blank
\* response, and return parsedThreats.
ReturnThreats ==
  /\ parserPc = "return"
  /\ warnings' = IF Len(parsedThreats) = 0 /\ Len(trim(aiResponse)) > 0
                 THEN Append(warnings, [kind |-> "nothing parsed", heading |-> ""])
                 ELSE warnings
  /\ parserPc' = "done"
  /\ UNCHANGED << parts, aiResponse, normalizedResponse, lastIndex, match,
                  strideCategory, blocksToProcess, blockIdx, parsedThreats >>
  /\ UNCHANGED runVars

InitParser == \E ps \in PartLists : ParserStart(ps)

NextParser ==
  \/ ExecCategoryRegex
  \/ CategoryBlock
  \/ UnmatchedHeading
  \/ ProcessBlock
  \/ ReturnThreats

SpecParser == InitParser /\ [][NextParser]_vars

(***************************************************************************)
(* generateAIStrideModel, called by the CLI, as a state machine.           *)
(***************************************************************************)

\* The CLI action has created its application context and calls
\* generateAIStrideModel in the environment e with the options opts, on the project
\* proj, the AI model having the completions outcomes for its calls.
RunStart(e, opts, proj, outcomes) ==
  /\ phase = "new"
  /\ env = e
  /\ completions = outcomes
  /\ options = opts
  /\ project = proj
  /\ appStructure = << >>
  /\ entityDefinitions = << >>
  /\ endpoints = << >>
  /\ entities = << >>
  /\ endpointResults = << >>
  /\ entityResults = << >>
  /\ aiCalls = << >>
  /\ threatModels = << >>
  /\ writtenModels = [written |-> FALSE, models |-> << >>]
  /\ threatModelJson = ""
  /\ report = NoReport
  /\ files = {}
  /\ result = NoResult
  /\ cli = [exited |-> FALSE, exitCode |-> 0, appCtx |-> "open"]

\* A constructor that goes on without an API key.
ConstructWithoutKey ==
  /\ phase = "new"
  /\ env.apiKey = "none"
  /\ phase' = "analyze"
  /\ UNCHANGED << env, options, project, endpoints, entities, endpointResults,
                  entityResults, aiCalls, threatModels, writtenModels,
                  threatModelJson, report, cli >>
  /\ UNCHANGED << appStructure, entityDefinitions, files, result >>
  /\ UNCHANGED << parserVars, parsed, completions >>

\* new StrideModelGenerator(...): no API key from ConfigService or process.env; the
\* constructor throws, generateAIStrideModel rejects, and the catch of the CLI
\* action calls process.exit(1): the process ends there, before the finally block.
ConstructorThrows ==
  /\ phase = "new"
  /\ env.apiKey = "none"
  /\ phase' = "failed"
  /\ cli' = [exited |-> TRUE, exitCode |-> 1, appCtx |-> cli.appCtx]
  /\ UNCHANGED << env, options, project, endpoints, entities, endpointResults,
                  entityResults, aiCalls, threatModels, writtenModels,
                  threatModelJson, report >>
  /\ UNCHANGED << appStructure, entityDefinitions, files, result >>
  /\ UNCHANGED << parserVars, parsed, completions >>

\* new StrideModelGenerator(...) with an API key: the client is initialized.
Construct ==
  /\ phase = "new"
  /\ env.apiKey # "none"
  /\ phase' = "analyze"
  /\ UNCHANGED << env, options, project, endpoints, entities, endpointResults,
                  entityResults, aiCalls, threatModels, writtenModels,
                  threatModelJson, report, cli >>
  /\ UNCHANGED << appStructure, entityDefinitions, files, result >>
  /\ UNCHANGED << parserVars, parsed, completions >>

\* generateThreatModel: analyzeProjectStructure builds appStructure, with the
\* fallback controller when the scan found none, and extractEntityDefinitions
\* fills entityDefinitions.
AnalyzeProjectStructure ==
  /\ phase = "analyze"
  /\ \E structure \in {appStructureOf(foundControllers(project.scanFails,
                                                       project.nEndpoints))} :
       /\ appStructure' = structure
       /\ endpoints' = endpointsOfModules(structure, 1)
  /\ \E definitions \in {entityDefinitionsOf(project.entityFiles, 1, << >>)} :
       /\ entityDefinitions' = definitions
       /\ entities' = keysOf(definitions)
  /\ phase' = "start"
  /\ UNCHANGED << env, options, project, endpointResults, entityResults, aiCalls,
                  threatModels, writtenModels, threatModelJson, report, cli >>
  /\ UNCHANGED << files, result >>
  /\ UNCHANGED << parserVars, parsed, completions >>

\* if (!hasEndpoints && !hasEntities && !this.options.includeGlobalThreats): the
\* branch that skips the generation. analyzeProjectStructure always leaves an
\* endpoint, so the run never takes it (it is no step of Next).
SkipGeneration ==
  /\ phase = "start"
  /\ ~hasEndpointsIn(appStructure)
  /\ Len(entityDefinitions) = 0
  /\ ~options.includeGlobalThreats
  /\ phase' = "finished"
  /\ UNCHANGED << env, options, project, endpoints, entities, endpointResults,
                  entityResults, aiCalls, threatModels, writtenModels,
                  threatModelJson, report, cli >>
  /\ UNCHANGED << appStructure, entityDefinitions, files, result >>
  /\ UNCHANGED << parserVars, parsed, completions >>

\* generateAIThreatModels: one generateEndpointThreatModel per endpoint is started.
DispatchEndpointAnalyses ==
  /\ phase = "start"
  /\ ~(~hasEndpointsIn(appStructure) /\ Len(entityDefinitions) = 0
       /\ ~options.includeGlobalThreats)
  /\ endpointResults' = [k \in 1..Len(endpoints) |-> Pending]
  /\ phase' = "endpoints"
  /\ UNCHANGED << env, options, project, endpoints, entities, entityResults, aiCalls,
                  threatModels, writtenModels, threatModelJson, report, cli >>
  /\ UNCHANGED << appStructure, entityDefinitions, files, result >>
  /\ UNCHANGED << parserVars, parsed, completions >>

\* An AI call that has returned: its prompt and what callGenerativeAI returned.
AiCall(prompt, response) == [prompt |-> prompt, response |-> response]

\* A call that is made a second time when it gave nothing.
recordCallWithRetry(calls, prompt, response) ==
  IF response = ""
  THEN Append(Append(calls, AiCall(prompt, response)), AiCall(prompt, response))
  ELSE Append(calls, AiCall(prompt, response))

\* callGenerativeAI sends the prompt once: whatever it gets, a text, nothing or an
\* error, it returns without a second generateContent.
recordCall(calls, prompt, response) == Append(calls, AiCall(prompt, response))

\* The AI call of endpoint k returns and generateEndpointThreatModel settles.
EndpointAnalysed(k, outcome) ==
  /\ phase = "endpoints"
  /\ ~endpointResults[k].settled
  /\ \E response \in {callGenerativeAI(env, endpointPromptOf(endpoints[k]), outcome)} :
       /\ aiCalls' = recordCall(aiCalls, endpointPromptOf(endpoints[k]), response)
       /\ endpointResults' =
            [endpointResults EXCEPT ![k] =
               Settled(generateEndpointThreatModel(endpoints[k], response))]
  /\ UNCHANGED << phase, env, options, project, endpoints, entities, entityResults,
                  threatModels, writtenModels, threatModelJson, report, cli >>
  /\ UNCHANGED << appStructure, entityDefinitions, files, result >>
  /\ UNCHANGED << parserVars, parsed, completions >>

\* After the per-asset analyses: the global pass, when it is enabled.
PhaseAfterAssets == IF options.includeGlobalThreats THEN "global" ELSE "write"

\* Entity analyses started whatever includeEntityThreats says.
entityAnalysisAlways(includeEntityThreats, definitions) == Len(definitions) > 0

\* this.options.includeEntityThreats && this.entityDefinitions.size > 0
entityAnalysisEnabled(includeEntityThreats, definitions) ==
  includeEntityThreats /\ Len(definitions) > 0

\* await Promise.all(endpointPromises): the models that are not null are pushed in
\* the order of the promises; then the entity analyses are started, if any.
CollectEndpointModels ==
  /\ phase = "endpoints"
  /\ \A k \in 1..Len(endpointResults) : endpointResults[k].settled
  /\ threatModels' = pushModels(threatModels, nonNullModels(endpointResults, 1))
  /\ IF entityAnalysisEnabled(options.includeEntityThreats, entityDefinitions)
     THEN /\ entityResults' = [k \in 1..Len(entityDefinitions) |-> Pending]
          /\ phase' = "entities"
     ELSE /\ entityResults' = entityResults
          /\ phase' = PhaseAfterAssets
  /\ UNCHANGED << env, options, project, endpoints, entities, endpointResults, aiCalls,
                  writtenModels, threatModelJson, report, cli >>
  /\ UNCHANGED << appStructure, entityDefinitions, files, result >>
  /\ UNCHANGED << parserVars, parsed, completions >>

\* The prompt of generateDataThreatModel for the k-th entry of entityDefinitions.
entityPromptAt(definitions, k) ==
  entityPromptOf(definitions[k].name, definitions[k].content)

\* The AI call of entity k returns and generateDataThreatModel settles.
EntityAnalysed(k, outcome) ==
  /\ phase = "entities"
  /\ ~entityResults[k].settled
  /\ \E response \in
         {callGenerativeAI(env, entityPromptAt(entityDefinitions, k), outcome)} :
       /\ aiCalls' = recordCall(aiCalls, entityPromptAt(entityDefinitions, k), response)
       /\ entityResults' =
            [entityResults EXCEPT ![k] =
               Settled(generateDataThreatModel(entityDefinitions[k].name, response))]
  /\ UNCHANGED << phase, env, options, project, endpoints, entities, endpointResults,
                  threatModels, writtenModels, threatModelJson, report, cli >>
  /\ UNCHANGED << appStructure, entityDefinitions, files, result >>
  /\ UNCHANGED << parserVars, parsed, completions >>

\* await Promise.all(entityPromises), and the push of the models that are not null.
CollectEntityModels ==
  /\ phase = "entities"
  /\ \A k \in 1..Len(entityResults) : entityResults[k].settled
  /\ threatModels' = pushModels(threatModels, nonNullModels(entityResults, 1))
  /\ phase' = PhaseAfterAssets
  /\ UNCHANGED << env, options, project, endpoints, entities, endpointResults,
                  entityResults, aiCalls, writtenModels, threatModelJson, report, cli >>
  /\ UNCHANGED << appStructure, entityDefinitions, files, result >>
  /\ UNCHANGED << parserVars, parsed, completions >>

\* generateGlobalThreatAnalysis, its AI call returning.
GlobalAnalysed(outcome) ==
  /\ phase = "global"
  /\ \E prompt \in {globalPromptOf(appStructure, entityDefinitions)} :
       \E response \in {callGenerativeAI(env, prompt, outcome)} :
         /\ aiCalls' = recordCall(aiCalls, prompt, response)
         /\ threatModels' = pushModels(threatModels, globalThreatModelsOf(response))
  /\ phase' = "write"
  /\ UNCHANGED << env, options, project, endpoints, entities, endpointResults,
                  entityResults, writtenModels, threatModelJson, report, cli >>
  /\ UNCHANGED << appStructure, entityDefinitions, files, result >>
  /\ UNCHANGED << parserVars, parsed, completions >>

\* if (this.threatModels.length > 0) await this.writeThreatModelToFile()
WriteThreatModelToFile ==
  /\ phase = "write"
  /\ Len(threatModels) > 0
  /\ writtenModels' = [written |-> TRUE, models |-> threatModels]
  /\ threatModelJson' = stringifyThreatModels(threatModels)
  /\ files' = files \cup {writtenFileOf(outputDirOf(options.outputPath),
                                        "threat-model.json")}
  /\ phase' = "report"
  /\ UNCHANGED << env, options, project, endpoints, entities, endpointResults,
                  entityResults, aiCalls, threatModels, report, cli >>
  /\ UNCHANGED << appStructure, entityDefinitions, result >>
  /\ UNCHANGED << parserVars, parsed, completions >>

\* The else branch: no model, no file.
SkipFileWriting ==
  /\ phase = "write"
  /\ Len(threatModels) = 0
  /\ phase' = "finished"
  /\ UNCHANGED << env, options, project, endpoints, entities, endpointResults,
                  entityResults, aiCalls, threatModels, writtenModels,
                  threatModelJson, report, cli >>
  /\ UNCHANGED << appStructure, entityDefinitions, files, result >>
  /\ UNCHANGED << parserVars, parsed, completions >>

\* await this.generateMarkdownReport(): the report is written, the threats of the
\* global model are left sorted; generateThreatModel is done.
GenerateMarkdownReport ==
  /\ phase = "report"
  /\ report' = reportOf(threatModels)
  /\ threatModels' = modelsAfterReport(threatModels)
  /\ files' = files \cup {writtenFileOf(outputDirOf(options.outputPath),
                                        "threat-model-report.md")}
  /\ phase' = "finished"
  /\ UNCHANGED << env, options, project, endpoints, entities, endpointResults,
                  entityResults, aiCalls, writtenModels, threatModelJson, cli >>
  /\ UNCHANGED << appStructure, entityDefinitions, result >>
  /\ UNCHANGED << parserVars, parsed, completions >>

\* generateAIStrideModel returns the two paths and threatModels to the CLI action,
\* which prints them; its finally block closes the application context.
ReturnToCli ==
  /\ phase = "finished"
  /\ result' = resultOf(options.outputPath)
  /\ cli' = [cli EXCEPT !.appCtx = "closed"]
  /\ phase' = "returned"
  /\ UNCHANGED << env, options, project, endpoints, entities, endpointResults,
                  entityResults, aiCalls, threatModels, writtenModels,
                  threatModelJson, report >>
  /\ UNCHANGED << appStructure, entityDefinitions, files >>
  /\ UNCHANGED << parserVars, parsed, completions >>

\* The options of a run: the two flags and the output path given.
OptionsOf(outputPaths) ==
  [includeGlobalThreats : BOOLEAN, includeEntityThreats : BOOLEAN,
   outputPath : outputPaths]

\* A scan that fails finds no endpoint.
ScanOf(proj) == proj.scanFails => proj.nEndpoints = 0

\* The runs without --output-path on the project of DiscoveredEntityFiles, the AI
\* model answering with any of AiOutcomes.
Init ==
  /\ ParserIdle
  /\ parsed = ParsedResponses
  /\ \E e \in Environments, opts \in OptionsOf({""}),
        proj \in Projects({SubSeq(DiscoveredEntityFiles, 1, n) : n \in 0..MaxEntities}) :
       ScanOf(proj) /\ RunStart(e, opts, proj, AiOutcomes)

Next ==
  \/ ConstructorThrows
  \/ Construct
  \/ AnalyzeProjectStructure
  \/ DispatchEndpointAnalyses
  \/ \E k \in 1..Len(endpointResults), outcome \in completions : EndpointAnalysed(k, outcome)
  \/ CollectEndpointModels
  \/ \E k \in 1..Len(entityResults), outcome \in completions : EntityAnalysed(k, outcome)
  \/ CollectEntityModels
  \/ \E outcome \in completions : GlobalAnalysed(outcome)
  \/ WriteThreatModelToFile
  \/ SkipFileWriting
  \/ GenerateMarkdownReport
  \/ ReturnToCli

Spec == Init /\ [][Next]_vars

\* The completions of the runs of SpecOptions: an error, and one Critical threat.
FewOutcomes ==
  { [kind |-> "error", text |-> ""], [kind |-> "text", text |-> OneCritical] }

\* The entity files of a project, MaxEntities at most.
EntityFileLists ==
  UNION {[1..n -> EntityFiles] : n \in 0..MaxEntities}

\* The runs with every output path and every entity file, the AI model failing or
\* answering with one threat.
InitOptions ==
  /\ ParserIdle
  /\ parsed = ParsedResponses
  /\ \E e \in Environments, opts \in OptionsOf(OutputPaths),
        proj \in Projects(EntityFileLists) :
       ScanOf(proj) /\ RunStart(e, opts, proj, FewOutcomes)

SpecOptions == InitOptions /\ [][Next]_vars

(***************************************************************************)
(* Properties of the parser (under SpecParser) and of the run (under Spec).*)
(***************************************************************************)

\* parseStrideThreats has returned; parsedThreats is its result.
Returned == parserPc = "done"

\* The part at position k of the response.
PartAt(k) == Parts[parts[k]]

ThreatFields == {"category", "description", "riskLevel", "mitigationStrategy"}

\* riskLevel: 'Low' | 'Medium' | 'High' | 'Critical'
riskLevels == {"Low", "Medium", "High", "Critical"}

\* The text of Scenario A.
ScenarioA == "## Tampering\n- Threat: bad input\n  Risk: High\n  Mitigation: validate input"

\* C1: parseStrideThreats is total. No call throws, and the loop over the blocks
\* never runs past the blocks; every threat pushed has the four fields and none of
\* them holds an error; a response without any heading line (empty, blank, prose,
\* list items alone) returns the empty list, and whenever the empty list is returned
\* for a response that is not blank, the final warning has been logged.
C1_ParserIsTotal ==
  /\ parserPc # "threw"
  /\ parserPc = "blocks" => blockIdx <= Len(blocksToProcess)
  /\ \A k \in 1..Len(parsedThreats) :
       /\ DOMAIN parsedThreats[k] = ThreatFields
       /\ TypeError \notin {parsedThreats[k].description, parsedThreats[k].riskLevel,
                            parsedThreats[k].mitigationStrategy}
  /\ (Returned /\ \A k \in 1..Len(parts) : PartAt(k).kind # "heading")
       => parsedThreats = << >>
  /\ (Returned /\ parsedThreats = << >> /\ Len(trim(aiResponse)) > 0)
       => /\ warnings # << >>
          /\ warnings[Len(warnings)].kind = "nothing parsed"

\* C1, its case: a response of list items without a heading has been parsed to the
\* empty list, with the warning.
C1_NothingParsedReturned ==
  /\ Returned
  /\ Len(parts) > 0
  /\ \A k \in 1..Len(parts) : PartAt(k).kind = "item"
  /\ parsedThreats = << >>
  /\ warnings # << >>

\* C2, as the claim states it: a threat whose text contains both the phrase "high
\* risk" and the phrase "critical risk" is emitted with riskLevel Critical.
C2_CriticalTakesPrecedence ==
  \A k \in 1..Len(parsedThreats) :
    ( /\ includes(toLowerCase(parsedThreats[k].description), "high risk")
      /\ includes(toLowerCase(parsedThreats[k].description), "critical risk") )
      => parsedThreats[k].riskLevel = "Critical"

\* C3, as the claim states it: the block under the heading "Info Disclosure Risks"
\* is not discarded as unmatched, and its threat is emitted with category
\* Information Disclosure.
C3_InfoDisclosureRisksMatched ==
  /\ \A w \in 1..Len(warnings) : warnings[w].heading # "Info Disclosure Risks"
  /\ ( /\ Returned
       /\ Len(parts) = 2
       /\ PartAt(1).text = "## Info Disclosure Risks"
       /\ PartAt(2).kind = "item"
       /\ Len(PartAt(2).threat) > MinDescriptionLength )
       => /\ Len(parsedThreats) = 1
          /\ parsedThreats[1].category = "Information Disclosure"

\* C3, amended: a heading that contains the word "information" and none of the names
\* Spoofing, Tampering, Repudiation - here "Information Risks" - is matched to
\* Information Disclosure: its block is not discarded as unmatched and its threat is
\* emitted with that category.
C3_InformationHeadingMatched ==
  /\ ( /\ parserPc = "blocks"
       /\ includes(toLowerCase(match.g1), "information")
       /\ \A n \in 1..3 : ~includes(toLowerCase(match.g1), toLowerCase(threatCategories[n])) )
       => strideCategory = "Information Disclosure"
  /\ \A w \in 1..Len(warnings) : warnings[w].heading # "Information Risks"
  /\ ( /\ Returned
       /\ Len(parts) = 2
       /\ PartAt(1).text = "## Information Risks"
       /\ PartAt(2).kind = "item"
       /\ Len(PartAt(2).threat) > MinDescriptionLength )
       => /\ Len(parsedThreats) = 1
          /\ parsedThreats[1].category = "Information Disclosure"

\* C3, its case: the item under "## Information Risks" has been emitted with
\* category Information Disclosure.
C3_InformationHeadingParsed ==
  /\ Returned
  /\ Len(parts) = 2
  /\ PartAt(1).text = "## Information Risks"
  /\ Len(parsedThreats) = 1
  /\ parsedThreats[1].category = "Information Disclosure"

\* C4, as the claim states it: the riskLevel of every threat is one of Low, Medium,
\* High, Critical, whatever the letter case of the word after "Risk:".
C4_RiskLevelInEnum ==
  \A k \in 1..Len(parsedThreats) : parsedThreats[k].riskLevel \in riskLevels

\* C5, as the claim states it: no ThreatModel of the collection written to
\* threat-model.json has an empty threats list.
C5_NoEmptyModelWritten ==
  writtenModels.written
    => \A k \in 1..Len(writtenModels.models) : Len(writtenModels.models[k].threats) > 0

\* The part at position k is a heading line that names a STRIDE category the code
\* recognises in it.
RecognisedHeadingAt(k) ==
  PartAt(k).kind = "heading" /\ strideCategoryOf(PartAt(k).text) = PartAt(k).names

\* C6, as the claim states it, on the responses of three parts with two heading
\* lines ('#' or bold) that name different categories: every threat listed under
\* the second heading is emitted with the second heading's category, and when the
\* second heading comes last, no threat of the first category holds its text.
C6_BlocksSplitAtEveryHeading ==
  (Returned /\ Len(parts) = 3) =>
    /\ ( /\ RecognisedHeadingAt(1) /\ RecognisedHeadingAt(2)
         /\ PartAt(1).names # PartAt(2).names
         /\ PartAt(3).kind # "heading" )
         => \A k \in 1..Len(parsedThreats) : parsedThreats[k].category = PartAt(2).names
    /\ ( /\ RecognisedHeadingAt(1) /\ RecognisedHeadingAt(3)
         /\ PartAt(1).names # PartAt(3).names
         /\ PartAt(2).kind # "heading" )
         => \A k \in 1..Len(parsedThreats) :
              /\ parsedThreats[k].category = PartAt(1).names
              /\ ~includes(parsedThreats[k].description, PartAt(3).names)
              /\ ~includes(parsedThreats[k].mitigationStrategy, PartAt(3).names)

\* The response is one '## <STRIDE category>' heading followed by a single list item
\* with Threat:, Risk: and Mitigation: lines.
SingleItemResponse ==
  /\ Len(parts) = 2
  /\ PartAt(1).kind = "heading"
  /\ PartAt(1).text = "## " \o PartAt(1).names
  /\ PartAt(2).kind = "item"

\* The one threat such a response states.
StatedThreat ==
  [ category           |-> PartAt(1).names,
    description        |-> PartAt(2).threat,
    riskLevel          |-> PartAt(2).risk,
    mitigationStrategy |-> PartAt(2).mitigation ]

C8_DescriptionAtLeastTen ==
  \A k \in 1..Len(parsedThreats) : Len(parsedThreats[k].description) >= 10

\* C8, amended: no emitted description has 5 characters or fewer.
C8_DescriptionLongerThanFive ==
  \A k \in 1..Len(parsedThreats) :
    Len(parsedThreats[k].description) > MinDescriptionLength

\* C8, its case: a description of 6 to 9 characters has been emitted, and a list item
\* with a shorter Threat text has been parsed to nothing.
C8_ShortDescriptionEmitted ==
  /\ Returned
  /\ \E k \in 1..Len(parsedThreats) :
       Len(parsedThreats[k].description) \in (MinDescriptionLength + 1)..9
  /\ \E k \in 1..Len(parts) :
       PartAt(k).kind = "item" /\ Len(PartAt(k).threat) <= MinDescriptionLength

\* The maximum display length of a description, and the ellipsis marker.
MaxDescriptionLength == 150

Ellipsis == "..."

\* C9, as the claim states it: no emitted description is longer than 150 characters
\* plus the ellipsis marker.
C9_DescriptionTruncated ==
  \A k \in 1..Len(parsedThreats) :
    Len(parsedThreats[k].description) <= MaxDescriptionLength + Len(Ellipsis)

RECURSIVE SumOf(_, _)
SumOf(numbers, k) == IF k > Len(numbers) THEN 0 ELSE numbers[k] + SumOf(numbers, k + 1)

\* C10, as the claim states it: in the report's risk distribution the four counts
\* add up to the total and the four percentages to 100.0 within rounding (0.05 each)
\* when the total is greater than 0, and every percentage is 0.0 when the total is 0.
C10_PercentagesSumToHundred ==
  report.written =>
    IF report.totalThreats > 0
    THEN /\ SumOf(report.riskCounts, 1) = report.totalThreats
         /\ SumOf(report.riskPercentages, 1) \in 998..1002
    ELSE \A n \in 1..Len(report.riskPercentages) : report.riskPercentages[n] = 0

(***************************************************************************)
(* Properties of the report, the artifact and the run (under Spec).        *)
(***************************************************************************)

\* The score the specification gives a highlighted asset.
SpecifiedScore(highlight) == 3 * highlight.criticalCount + highlight.highCount

\* The place of an asset in the order of discovery: the endpoints, then the entities.
DiscoveryIndex(assetName) ==
  CHOOSE n \in 1..(Len(endpoints) + Len(entities)) : (endpoints \o entities)[n] = assetName

\* The highlights are in the specified order: by score descending, equal scores in
\* discovery order.
RankedAsSpecified(highlights) ==
  \A i, j \in 1..Len(highlights) :
    i < j =>
      \/ SpecifiedScore(highlights[i]) > SpecifiedScore(highlights[j])
      \/ /\ SpecifiedScore(highlights[i]) = SpecifiedScore(highlights[j])
         /\ DiscoveryIndex(highlights[i].assetName) < DiscoveryIndex(highlights[j].assetName)

\* C11, as the claim states it: in the report the endpoints, and the entities,
\* highlighted as most vulnerable are ordered by 3 x criticalCount + highCount,
\* descending, assets of equal score in discovery order.
C11_AssetsRankedByScore ==
  report.written =>
    /\ RankedAsSpecified(report.endpointHighlights)
    /\ RankedAsSpecified(report.entityHighlights)

\* The position of a category in the fixed STRIDE enumeration.
StrideIndex(category) ==
  CHOOSE n \in 1..Len(threatCategories) : threatCategories[n] = category

\* C12, as the claim states it: the category ranking of the report is by threat
\* count, descending, categories of equal count in the order of the STRIDE
\* enumeration.
C12_CategoriesRankedByCount ==
  report.written =>
    \A i, j \in 1..Len(report.sortedCategories) :
      i < j =>
        \/ report.sortedCategories[i].count > report.sortedCategories[j].count
        \/ /\ report.sortedCategories[i].count = report.sortedCategories[j].count
           /\ StrideIndex(report.sortedCategories[i].category)
                < StrideIndex(report.sortedCategories[j].category)

\* C13, as the claim states it: once generateMarkdownReport has run, the collection
\* (the one returned to the caller) is the collection as it was serialized to
\* threat-model.json: the same models with the same threats in the same order.
C13_ReportLeavesCollectionUnchanged ==
  (phase = "finished" /\ report.written) => threatModels = writtenModels.models

\* C14, as the claim states it: computing the statistics a second time on the
\* collection, after the report was generated from it, yields the statistics of the
\* report: the same total, counts, percentages, category and asset rankings.
C14_StatisticsIdempotent ==
  (phase = "finished" /\ report.written) => reportOf(threatModels) = report

\* C15: parsing the text written to threat-model.json yields the collection that
\* was serialized: the same models in the same order, each with the same assetName,
\* assetType and threats, field for field.
C15_JsonRoundTrip ==
  phase = "report" => parseJSON(threatModelJson) = writtenModels.models

\* C15, its case: a collection of two models or more, with a quotation mark and a
\* backslash in its texts, has been written and reads back equal.
C15_EscapedCollectionWritten ==
  /\ phase = "report"
  /\ Len(writtenModels.models) >= 2
  /\ includes(threatModelJson, "\\\"order\\\"")
  /\ includes(threatModelJson, "C:\\\\audit")
  /\ parseJSON(threatModelJson) = writtenModels.models

\* The assets in discovery order, the global architecture last.
AssetOrder == endpoints \o entities \o << globalThreatModel(<< >>).assetName >>

AssetIndex(assetName) ==
  CHOOSE n \in 1..Len(AssetOrder) : AssetOrder[n] = assetName

\* C16: whatever the order in which the AI calls return, the models of the
\* collection are in discovery order: endpoints in the order of the structure, then
\* the entities in the order of the collection.
C16_CollectionInDiscoveryOrder ==
  \A i, j \in 1..Len(threatModels) :
    i < j => AssetIndex(threatModels[i].assetName) < AssetIndex(threatModels[j].assetName)

\* C16, its case: the call of the second endpoint returned before the call of the
\* first, and the collection holds the first endpoint's model before the second's.
C16_LaterEndpointReturnedFirst ==
  /\ Len(endpoints) >= 2
  /\ Len(aiCalls) >= 2
  /\ aiCalls[1].prompt = endpointPromptOf(endpoints[2])
  /\ aiCalls[2].prompt = endpointPromptOf(endpoints[1])
  /\ Len(threatModels) >= 2
  /\ threatModels[1].assetName = endpoints[1]
  /\ threatModels[2].assetName = endpoints[2]

\* The prompt is the one of generateGlobalThreatAnalysis.
IsGlobalPrompt(prompt) == StartsAt(prompt, 1, globalPrompt)

\* Every promise of the results has settled.
AllSettled(results) == \A k \in 1..Len(results) : results[k].settled

\* C17: the global analysis runs only when every per-endpoint and per-entity task
\* has completed (the entity tasks having been started when entities are analysed),
\* its AI call is the last call of the run, and the process-type model, when there
\* is one, is the last model of the collection.
C17_GlobalAfterAssets ==
  /\ phase = "global" =>
       /\ Len(endpointResults) = Len(endpoints) /\ AllSettled(endpointResults)
       /\ (options.includeEntityThreats => Len(entityResults) = Len(entities))
       /\ AllSettled(entityResults)
       /\ Len(aiCalls) = Len(endpointResults) + Len(entityResults)
  /\ \A n \in 1..Len(aiCalls) :
       IsGlobalPrompt(aiCalls[n].prompt) =>
         /\ n = Len(aiCalls)
         /\ n = Len(endpointResults) + Len(entityResults) + 1
         /\ AllSettled(endpointResults) /\ AllSettled(entityResults)
  /\ \A k \in 1..Len(threatModels) :
       threatModels[k].assetType = "process" => k = Len(threatModels)

\* C17, its case: a run with per-asset models has finished with the process-type
\* model at the end of the collection, the global call having returned last.
C17_GlobalModelAppendedLast ==
  /\ phase = "finished"
  /\ Len(threatModels) >= 2
  /\ threatModels[Len(threatModels)].assetType = "process"
  /\ Len(aiCalls) >= 2
  /\ IsGlobalPrompt(aiCalls[Len(aiCalls)].prompt)

\* The prompts of the per-asset calls, by asset name.
AssetPromptOf(assetName) ==
  IF \E n \in 1..Len(endpoints) : endpoints[n] = assetName
  THEN endpointPromptOf(assetName)
  ELSE IF \E k \in 1..Len(entityDefinitions) : entityDefinitions[k].name = assetName
  THEN entityPromptAt(entityDefinitions,
                      CHOOSE k \in 1..Len(entityDefinitions) :
                        entityDefinitions[k].name = assetName)
  ELSE ""

HasModel(assetName) ==
  \E k \in 1..Len(threatModels) : threatModels[k].assetName = assetName

\* The per-asset analyses have been collected.
AssetsCollected == phase \in {"global", "write", "report", "finished", "returned"}

C19_MissingKeyAbortsAtStartup ==
  /\ env.apiKey = "none" =>
       /\ phase \in {"new", "failed"}
       /\ endpoints = << >> /\ entities = << >>
       /\ endpointResults = << >> /\ entityResults = << >>
       /\ aiCalls = << >>
       /\ ~writtenModels.written /\ threatModelJson = "" /\ ~report.written
  /\ phase = "failed" => cli.exited /\ cli.exitCode # 0
  /\ (phase = "new" /\ env.apiKey = "none") => ENABLED ConstructorThrows

\* C19, its case: a run without a key has aborted, on a project that has endpoints.
C19_AbortedWithoutKey ==
  /\ env.apiKey = "none"
  /\ ~env.useMockResponse
  /\ project.nEndpoints > 0
  /\ phase = "failed"
  /\ cli.exited /\ cli.exitCode = 1

\* C20, as the claim states it: with USE_MOCK_RESPONSE=true and no GOOGLE_API_KEY
\* the run does not fail for want of a key, and once finished it has written its
\* output files.
C20_MockRunNeedsNoKey ==
  (env.useMockResponse /\ env.apiKey = "none") =>
    /\ phase # "failed"
    /\ ~cli.exited
    /\ (phase = "finished" /\ project.nEndpoints > 0) =>
         writtenModels.written /\ report.written

(***************************************************************************)
(* Properties of the files, the structure, the prompts and the CLI         *)
(* (under Spec and SpecOptions).                                           *)
(***************************************************************************)

\* C21, as the claim states it: a run that did not fail has written
\* threat-model.json and threat-model-report.md, also when its collection is
\* empty, and the jsonPath and reportPath it returned are files it wrote.
C21_EveryRunWritesItsFiles ==
  phase = "returned" =>
    /\ result.returned
    /\ result.jsonPath \in files
    /\ result.reportPath \in files
    /\ report.written

\* C22: when the collection has no threat at all, the report is the no-threats
\* notice under its one heading, without any count, percentage, ranking or other
\* section; and the notice is given in that case only.
C22_ZeroThreatsNoticeOnly ==
  report.written =>
    /\ totalThreatsOf(writtenModels.models, 1) = 0 =>
         /\ report.notice
         /\ report.sections = << "Executive Summary" >>
         /\ report.riskCounts = << >> /\ report.riskPercentages = << >>
         /\ report.sortedCategories = << >>
         /\ report.endpointHighlights = << >> /\ report.entityHighlights = << >>
    /\ report.notice => totalThreatsOf(writtenModels.models, 1) = 0

\* C22, its case: a collection of models without a single threat was written and
\* the report holds the notice alone.
C22_NoticeWritten ==
  /\ report.written
  /\ Len(writtenModels.models) > 0
  /\ totalThreatsOf(writtenModels.models, 1) = 0
  /\ report.notice
  /\ Len(report.sections) = 1

\* The structural analysis has run.
Analysed == phase \notin {"idle", "new", "failed", "analyze"}

\* C23: after the structural analysis appStructure holds a module with a controller
\* with an endpoint; when the scan found no endpoint or failed, that controller is
\* the one placeholder controller with its one placeholder endpoint; and a failing
\* scan does not make the run fail.
C23_StructureNeverEmpty ==
  /\ Analysed =>
       /\ Len(appStructure) >= 1
       /\ hasEndpointsIn(appStructure)
       /\ Len(endpoints) >= 1
       /\ (project.scanFails \/ project.nEndpoints = 0) =>
            /\ Len(appStructure[1].controllers) = 1
            /\ Len(appStructure[1].controllers[1].endpoints) = 1
            /\ Len(endpoints) = 1
       /\ project.nEndpoints > 0 /\ ~project.scanFails =>
            Len(endpoints) = project.nEndpoints
  /\ (project.scanFails /\ env.apiKey # "none") => phase # "failed" /\ ~cli.exited

\* C23, its case: the scan failed and the run went to its end on the placeholder
\* endpoint, for which one AI call was made.
C23_FallbackAfterFailedScan ==
  /\ project.scanFails
  /\ phase = "returned"
  /\ endpoints = FallbackController.endpoints
  /\ Len(aiCalls) >= 1

\* The position after an 'abstract' or 'default' modifier at q, and q without one.
AfterModifier(content, q) ==
  IF StartsAt(content, q, "abstract") /\ SkipWs(content, q + 8) > q + 8
  THEN SkipWs(content, q + 8)
  ELSE IF StartsAt(content, q, "default") /\ SkipWs(content, q + 7) > q + 7
  THEN SkipWs(content, q + 7)
  ELSE q

\* Where the name of an exported class starts when its declaration starts at p:
\* 'export', modifiers or not, 'class', the name; 0 when no class is declared at p.
ExportedClassNameAt(content, p, modifiers) ==
  IF /\ StartsAt(content, p, "export")
     /\ SkipWs(content, p + 6) > p + 6
     /\ StartsAt(content,
                 IF modifiers THEN AfterModifier(content, SkipWs(content, p + 6))
                 ELSE SkipWs(content, p + 6), "class")
  THEN (IF modifiers THEN AfterModifier(content, SkipWs(content, p + 6))
        ELSE SkipWs(content, p + 6)) + 5
  ELSE 0

\* The name of the first exported class that content declares, "" when it declares
\* none; with modifiers, abstract and default classes count as well.
FirstExportedClass(content, modifiers) ==
  LET declared(p) ==
        /\ ExportedClassNameAt(content, p, modifiers) # 0
        /\ SkipWs(content, ExportedClassNameAt(content, p, modifiers))
             > ExportedClassNameAt(content, p, modifiers)
        /\ IsWordChar(Ch(content, SkipWs(content, ExportedClassNameAt(content, p, modifiers))))
      p0 == First(declared, 1, Len(content))
      n0 == SkipWs(content, ExportedClassNameAt(content, p0, modifiers))
  IN  IF p0 > Len(content) THEN "" ELSE Sub(content, n0, SkipWord(content, n0) - 1)

\* The key the claim gives the entity of a file.
StatedEntityName(file, modifiers) ==
  IF FirstExportedClass(file.content, modifiers) # ""
  THEN FirstExportedClass(file.content, modifiers)
  ELSE entityNameFromFile(file.fileName)

\* The entities are keyed as stated, each with the text of its file; of two files
\* with one key the later one is kept, under its key's first position.
KeyedAsStated(modifiers) ==
  Analysed =>
    /\ \A k \in 1..Len(project.entityFiles) :
         \E j \in 1..Len(entityDefinitions) :
           entityDefinitions[j].name = StatedEntityName(project.entityFiles[k], modifiers)
    /\ \A j \in 1..Len(entityDefinitions) :
         \E k \in 1..Len(project.entityFiles) :
           /\ entityDefinitions[j].name = StatedEntityName(project.entityFiles[k], modifiers)
           /\ entityDefinitions[j].content = project.entityFiles[k].content
           /\ \A later \in (k + 1)..Len(project.entityFiles) :
                StatedEntityName(project.entityFiles[later], modifiers)
                  # entityDefinitions[j].name
    /\ \A i, j \in 1..Len(entityDefinitions) :
         entityDefinitions[i].name = entityDefinitions[j].name => i = j
    /\ entities = keysOf(entityDefinitions)

\* The key of each file of EntityFiles.
ExpectedEntityName(file) ==
  CASE file = CoffeeEntity -> "Coffee"
    [] file = CoffeeEntityWithSecret -> "Coffee"
    [] file = FlavorEntity -> "flavor"
    [] file = EventEntity -> "Event"
    [] file = OrderEntity -> "order"

WithContent(definitions, content) ==
  [k \in 1..Len(definitions) |-> [name |-> definitions[k].name, content |-> content]]

\* C25: the global prompt that was sent is the one any run with the same structure
\* and the same entity names sends, whatever the source text of the entities, and
\* it does not hold the source text of an entity.
C25_GlobalPromptFromSummaryOnly ==
  \A n \in 1..Len(aiCalls) :
    IsGlobalPrompt(aiCalls[n].prompt) =>
      /\ \A file \in EntityFiles :
           globalPromptOf(appStructure, WithContent(entityDefinitions, file.content))
             = aiCalls[n].prompt
      /\ \A k \in 1..Len(entityDefinitions) :
           ~includes(aiCalls[n].prompt, entityDefinitions[k].content)

\* C25, its case: the entity prompt of the run quotes a field of the entity's
\* source, the global prompt of the same run names the entity and not the field.
C25_SourceInEntityPromptOnly ==
  /\ project.entityFiles = << CoffeeEntityWithSecret >>
  /\ Len(aiCalls) >= 2
  /\ \E n \in 1..Len(aiCalls) :
       /\ ~IsGlobalPrompt(aiCalls[n].prompt)
       /\ includes(aiCalls[n].prompt, "supplierToken")
  /\ IsGlobalPrompt(aiCalls[Len(aiCalls)].prompt)
  /\ includes(aiCalls[Len(aiCalls)].prompt, "Data Entities Found: Coffee")
  /\ ~includes(aiCalls[Len(aiCalls)].prompt, "supplierToken")

IsEntityPrompt(prompt) == StartsAt(prompt, 1, "Entity Name: ")

IsEndpointPrompt(prompt) == StartsAt(prompt, 1, "Endpoint Path: ")

\* The number of calls whose prompt is prompt.
CallsWith(prompt) == Cardinality({n \in 1..Len(aiCalls) : aiCalls[n].prompt = prompt})

InsideDirectory(location, dir) == StartsAt(location, 1, dir \o "/")

\* C27, as the claim states it: with an output path, the run has written
\* threat-model.json and threat-model-report.md inside that directory, and the
\* jsonPath and reportPath returned are the two files it wrote.
C27_FilesWrittenInOutputPath ==
  (phase = "returned" /\ options.outputPath # "") =>
    /\ files = {result.jsonPath, result.reportPath}
    /\ result.jsonPath # result.reportPath
    /\ \A location \in files : InsideDirectory(location, pathResolve(options.outputPath))

\* The heading at position k matches no STRIDE category.
UnmatchedHeadingAt(k) ==
  PartAt(k).kind = "heading" /\ strideCategoryOf(PartAt(k).text) = ""

\* C28, as the claim states it: every threat returned has one of the six STRIDE
\* categories, and a block whose heading matches none of them gives no threat: a
\* response whose last heading matches no category, with nothing but headings
\* before it, gives no threat at all.
C28_OnlyStrideCategories ==
  Returned =>
    /\ \A k \in 1..Len(parsedThreats) :
         \E n \in 1..Len(threatCategories) : parsedThreats[k].category = threatCategories[n]
    /\ \A j \in 1..Len(parts) :
         ( /\ UnmatchedHeadingAt(j)
           /\ \A i \in 1..(j - 1) : PartAt(i).kind = "heading"
           /\ \A i \in (j + 1)..Len(parts) : PartAt(i).kind # "heading" )
         => parsedThreats = << >>

\* C29: no prompt is sent twice; every call belongs to a task that has settled, or
\* is the one global call; and a run that has ended made one call per endpoint, one
\* per entity when entities are analysed, and one global call when the global
\* analysis is enabled, whatever the calls returned.
C29_OneCallPerAsset ==
  /\ \A n \in 1..Len(aiCalls) : CallsWith(aiCalls[n].prompt) = 1
  /\ Len(aiCalls) =
       Cardinality({k \in 1..Len(endpointResults) : endpointResults[k].settled})
       + Cardinality({k \in 1..Len(entityResults) : entityResults[k].settled})
       + Cardinality({n \in 1..Len(aiCalls) : IsGlobalPrompt(aiCalls[n].prompt)})
  /\ Cardinality({n \in 1..Len(aiCalls) : IsGlobalPrompt(aiCalls[n].prompt)}) <= 1
  /\ phase \in {"finished", "returned"} =>
       Len(aiCalls) = Len(endpoints)
                      + (IF options.includeEntityThreats THEN Len(entityDefinitions) ELSE 0)
                      + (IF options.includeGlobalThreats THEN 1 ELSE 0)

\* C29, its case: every call of a run on two endpoints and an entity failed, and
\* the run ended with its four calls.
C29_FailedCallsNotRetried ==
  /\ phase = "returned"
  /\ ~env.useMockResponse
  /\ Len(endpoints) = 2 /\ Len(entityDefinitions) = 1
  /\ options.includeEntityThreats /\ options.includeGlobalThreats
  /\ Len(aiCalls) = 4
  /\ \A n \in 1..Len(aiCalls) : aiCalls[n].response = ""

\* C30, as the claim states it: when the CLI action is over, by its end or by the
\* exit of the process, the application context it created has been closed.
C30_ContextClosedOnEveryPath ==
  (cli.exited \/ phase = "returned") => cli.appCtx = "closed"

====
